---- MODULE Spec2Model ----
(***************************************************************************)
(* Aircraft performance and wind-adjusted fuel planning                    *)
(* (src/poh_data.py, src/fuel_plan.py, src/winds_aloft.py).                *)
(*                                                                         *)
(* Python floats are modelled as exact rationals [n |-> .., d |-> ..] in   *)
(* lowest terms with d > 0.  Quantities the source writes with one decimal *)
(* (fuel quantities, burn rates) are stored in the registry in tenths.     *)
(* The absent value None is the record None; a raised exception is a       *)
(* record Raise(..); an empty dict {} is the function with empty domain.   *)
(***************************************************************************)
EXTENDS Integers, Sequences, FiniteSets, TLC

VARIABLES registry, op, inp, out, cache, fetched, threads, results, main

(* the route winds: the lru_cache of _fetch_windtemp_text, the requests     *)
(* sent per level, the threads of fetch_route_winds, its list results and  *)
(* its calling thread                                                      *)
fetchVars == <<cache, fetched, threads, results, main>>

vars == <<registry, op, inp, out, cache, fetched, threads, results, main>>

(***************************************************************************)
(* Exact rational arithmetic (the real-number reading of float arithmetic) *)
(***************************************************************************)
Abs(x) == IF x < 0 THEN -x ELSE x

RECURSIVE GCD(_, _)
GCD(a, b) == IF b = 0 THEN a ELSE GCD(b, a % b)

Rat(n, d) ==
    LET g == GCD(Abs(n), d)
    IN  [n |-> n \div g, d |-> d \div g]

RInt(i) == [n |-> i, d |-> 1]

Tenths(x) == Rat(x, 10)

RZero == RInt(0)

RAdd(a, b) ==
    LET g == GCD(a.d, b.d)
    IN  Rat(a.n * (b.d \div g) + b.n * (a.d \div g), (a.d \div g) * b.d)

RNeg(a) == [n |-> -a.n, d |-> a.d]

RSub(a, b) == RAdd(a, RNeg(b))

RMul(a, b) ==
    LET g1 == GCD(Abs(a.n), b.d)
        g2 == GCD(Abs(b.n), a.d)
    IN  [n |-> (a.n \div g1) * (b.n \div g2), d |-> (a.d \div g2) * (b.d \div g1)]

RInv(a) == IF a.n > 0 THEN [n |-> a.d, d |-> a.n] ELSE [n |-> -a.d, d |-> -a.n]

RDiv(a, b) == RMul(a, RInv(b))

RLe(a, b) ==
    LET g == GCD(a.d, b.d)
    IN  a.n * (b.d \div g) <= b.n * (a.d \div g)

RLt(a, b) == ~RLe(b, a)

RMax(a, b) == IF RLe(b, a) THEN a ELSE b

(* Python round(x) on a float holding the exact value n/d: nearest integer, *)
(* an exact half going to the even neighbour.                               *)
RoundHalfEven(a) ==
    LET fl  == a.n \div a.d
        rem == a.n - fl * a.d
    IN  IF 2 * rem > a.d \/ (2 * rem = a.d /\ fl % 2 = 1) THEN fl + 1 ELSE fl

(* Python round(x, 1), result in tenths.  When the exact value is a decimal *)
(* half (x.x5) the float that holds it lies just above or just below, so    *)
(* the digit goes up or down; tieUp is that direction.                      *)
RoundTenths(a, tieUp) ==
    LET t   == RMul(a, RInt(10))
        fl  == t.n \div t.d
        rem == t.n - fl * t.d
    IN  IF 2 * rem > t.d \/ (2 * rem = t.d /\ tieUp) THEN fl + 1 ELSE fl

None == [tag |-> "None"]

Raise(exc) == [tag |-> "raise", exc |-> exc]

EmptyDict == [k \in {} |-> 0]

(* dict.get(key, default) *)
Get(d, key, default) == IF key \in DOMAIN d THEN d[key] ELSE default

(***************************************************************************)
(* src/poh_data.py: the POH registry.  fuel_capacity, taxi_fuel,           *)
(* reserve_fuel and every "fuel" burn rate are in tenths of the fuel unit; *)
(* fuel_key is the key the source row uses for its burn rate.  Notes are   *)
(* the source strings with non-ASCII punctuation folded to ASCII.          *)
(***************************************************************************)
POHCodes ==
    {"C152", "C172", "C182", "P210", "SR22", "BE36", "PA18", "PA28",
     "PA24", "BE58", "BE60", "AEST", "TBM9", "TBM8", "PC12", "C208",
     "DHC6", "BE9L", "AT76", "C408", "SF50", "C25C", "PC24", "HN700",
     "B461", "RJ1H", "F28", "BCS3", "E170", "SF34", "B38M", "B736",
     "B738", "B739", "A20N", "A320", "A319", "A21N", "B78X", "A333",
     "B772", "B77W", "B77F", "B748", "A388", "A400"}

POHEntry(code) ==
    CASE code = "C152" ->
        [fuel_capacity |-> 245, fuel_unit |-> "gal", taxi_fuel |-> 10, reserve_fuel |-> 38,
        climb |-> [fpm |-> 715, ktas |-> 67, fuel_key |-> "fuel_gph", fuel |-> 65],
        cruise_table |-> <<
            [fl |-> 20, ktas |-> 90, fuel_key |-> "fuel_gph", fuel |-> 55, power_pct |-> 75, notes |-> "2000ft 75%"],
            [fl |-> 45, ktas |-> 92, fuel_key |-> "fuel_gph", fuel |-> 53, power_pct |-> 75, notes |-> "4500ft 75%"],
            [fl |-> 65, ktas |-> 93, fuel_key |-> "fuel_gph", fuel |-> 50, power_pct |-> 70, notes |-> "6500ft 70%"],
            [fl |-> 85, ktas |-> 91, fuel_key |-> "fuel_gph", fuel |-> 47, power_pct |-> 65, notes |-> "8500ft LRC"]>>,
        descent |-> [fpm |-> 500, ktas |-> 85, fuel_key |-> "fuel_gph", fuel |-> 35],
        contingency_pct |-> 10, tier |-> 1]
      [] code = "C172" ->
        [fuel_capacity |-> 530, fuel_unit |-> "gal", taxi_fuel |-> 14, reserve_fuel |-> 55,
        climb |-> [fpm |-> 730, ktas |-> 76, fuel_key |-> "fuel_gph", fuel |-> 100],
        cruise_table |-> <<
            [fl |-> 25, ktas |-> 107, fuel_key |-> "fuel_gph", fuel |-> 84, power_pct |-> 75, notes |-> "2500ft 75% std day"],
            [fl |-> 45, ktas |-> 110, fuel_key |-> "fuel_gph", fuel |-> 84, power_pct |-> 75, notes |-> "4500ft 75%"],
            [fl |-> 65, ktas |-> 112, fuel_key |-> "fuel_gph", fuel |-> 82, power_pct |-> 75, notes |-> "6500ft 75%"],
            [fl |-> 85, ktas |-> 114, fuel_key |-> "fuel_gph", fuel |-> 80, power_pct |-> 75, notes |-> "8500ft best cruise"],
            [fl |-> 105, ktas |-> 115, fuel_key |-> "fuel_gph", fuel |-> 75, power_pct |-> 65, notes |-> "10500ft 65%"],
            [fl |-> 125, ktas |-> 111, fuel_key |-> "fuel_gph", fuel |-> 69, power_pct |-> 55, notes |-> "12500ft LRC"]>>,
        descent |-> [fpm |-> 500, ktas |-> 110, fuel_key |-> "fuel_gph", fuel |-> 55],
        contingency_pct |-> 10, tier |-> 1]
      [] code = "C182" ->
        [fuel_capacity |-> 870, fuel_unit |-> "gal", taxi_fuel |-> 15, reserve_fuel |-> 75,
        climb |-> [fpm |-> 924, ktas |-> 84, fuel_key |-> "fuel_gph", fuel |-> 140],
        cruise_table |-> <<
            [fl |-> 40, ktas |-> 140, fuel_key |-> "fuel_gph", fuel |-> 132, power_pct |-> 75, notes |-> "4000ft 75%"],
            [fl |-> 65, ktas |-> 143, fuel_key |-> "fuel_gph", fuel |-> 128, power_pct |-> 75, notes |-> "6500ft 75%"],
            [fl |-> 85, ktas |-> 144, fuel_key |-> "fuel_gph", fuel |-> 125, power_pct |-> 75, notes |-> "8500ft best cruise"],
            [fl |-> 105, ktas |-> 142, fuel_key |-> "fuel_gph", fuel |-> 115, power_pct |-> 68, notes |-> "10500ft 68%"],
            [fl |-> 125, ktas |-> 137, fuel_key |-> "fuel_gph", fuel |-> 100, power_pct |-> 60, notes |-> "12500ft LRC"]>>,
        descent |-> [fpm |-> 600, ktas |-> 130, fuel_key |-> "fuel_gph", fuel |-> 70],
        contingency_pct |-> 10, tier |-> 1]
      [] code = "P210" ->
        [fuel_capacity |-> 1020, fuel_unit |-> "gal", taxi_fuel |-> 15, reserve_fuel |-> 115,
        climb |-> [fpm |-> 1400, ktas |-> 110, fuel_key |-> "fuel_gph", fuel |-> 200],
        cruise_table |-> <<
            [fl |-> 80, ktas |-> 183, fuel_key |-> "fuel_gph", fuel |-> 170, power_pct |-> 85, notes |-> "8000ft 85% max cruise"],
            [fl |-> 100, ktas |-> 191, fuel_key |-> "fuel_gph", fuel |-> 165, power_pct |-> 85, notes |-> "10000ft 85%"],
            [fl |-> 140, ktas |-> 200, fuel_key |-> "fuel_gph", fuel |-> 155, power_pct |-> 80, notes |-> "14000ft 80% - published max 235 KTAS"],
            [fl |-> 170, ktas |-> 195, fuel_key |-> "fuel_gph", fuel |-> 135, power_pct |-> 75, notes |-> "17000ft 75%"],
            [fl |-> 200, ktas |-> 185, fuel_key |-> "fuel_gph", fuel |-> 115, power_pct |-> 65, notes |-> "20000ft LRC"]>>,
        descent |-> [fpm |-> 800, ktas |-> 160, fuel_key |-> "fuel_gph", fuel |-> 80],
        contingency_pct |-> 10, tier |-> 2]
      [] code = "SR22" ->
        [fuel_capacity |-> 810, fuel_unit |-> "gal", taxi_fuel |-> 15, reserve_fuel |-> 105,
        climb |-> [fpm |-> 1270, ktas |-> 100, fuel_key |-> "fuel_gph", fuel |-> 200],
        cruise_table |-> <<
            [fl |-> 60, ktas |-> 172, fuel_key |-> "fuel_gph", fuel |-> 178, power_pct |-> 75, notes |-> "6000ft 75% - POH 171 kt 15.4 gph 65%"],
            [fl |-> 80, ktas |-> 176, fuel_key |-> "fuel_gph", fuel |-> 178, power_pct |-> 75, notes |-> "8000ft 75%"],
            [fl |-> 100, ktas |-> 178, fuel_key |-> "fuel_gph", fuel |-> 170, power_pct |-> 75, notes |-> "10000ft 75%"],
            [fl |-> 120, ktas |-> 176, fuel_key |-> "fuel_gph", fuel |-> 155, power_pct |-> 65, notes |-> "12000ft 65% normal cruise"],
            [fl |-> 140, ktas |-> 173, fuel_key |-> "fuel_gph", fuel |-> 135, power_pct |-> 60, notes |-> "14000ft LOP economy"]>>,
        descent |-> [fpm |-> 700, ktas |-> 150, fuel_key |-> "fuel_gph", fuel |-> 80],
        contingency_pct |-> 10, tier |-> 1]
      [] code = "BE36" ->
        [fuel_capacity |-> 740, fuel_unit |-> "gal", taxi_fuel |-> 15, reserve_fuel |-> 90,
        climb |-> [fpm |-> 1100, ktas |-> 95, fuel_key |-> "fuel_gph", fuel |-> 180],
        cruise_table |-> <<
            [fl |-> 60, ktas |-> 161, fuel_key |-> "fuel_gph", fuel |-> 165, power_pct |-> 75, notes |-> "6000ft 75%"],
            [fl |-> 80, ktas |-> 164, fuel_key |-> "fuel_gph", fuel |-> 160, power_pct |-> 75, notes |-> "8000ft 75%"],
            [fl |-> 100, ktas |-> 165, fuel_key |-> "fuel_gph", fuel |-> 155, power_pct |-> 75, notes |-> "10000ft 75% best cruise"],
            [fl |-> 120, ktas |-> 162, fuel_key |-> "fuel_gph", fuel |-> 135, power_pct |-> 65, notes |-> "12000ft 65% economy"],
            [fl |-> 140, ktas |-> 158, fuel_key |-> "fuel_gph", fuel |-> 115, power_pct |-> 55, notes |-> "14000ft LRC"]>>,
        descent |-> [fpm |-> 650, ktas |-> 140, fuel_key |-> "fuel_gph", fuel |-> 75],
        contingency_pct |-> 10, tier |-> 1]
      [] code = "PA18" ->
        [fuel_capacity |-> 360, fuel_unit |-> "gal", taxi_fuel |-> 5, reserve_fuel |-> 40,
        climb |-> [fpm |-> 960, ktas |-> 55, fuel_key |-> "fuel_gph", fuel |-> 90],
        cruise_table |-> <<
            [fl |-> 20, ktas |-> 80, fuel_key |-> "fuel_gph", fuel |-> 75, power_pct |-> 75, notes |-> "2000ft cruise"],
            [fl |-> 45, ktas |-> 82, fuel_key |-> "fuel_gph", fuel |-> 72, power_pct |-> 75, notes |-> "4500ft cruise"],
            [fl |-> 65, ktas |-> 83, fuel_key |-> "fuel_gph", fuel |-> 68, power_pct |-> 70, notes |-> "6500ft"]>>,
        descent |-> [fpm |-> 400, ktas |-> 75, fuel_key |-> "fuel_gph", fuel |-> 40],
        contingency_pct |-> 10, tier |-> 2]
      [] code = "PA28" ->
        [fuel_capacity |-> 500, fuel_unit |-> "gal", taxi_fuel |-> 10, reserve_fuel |-> 60,
        climb |-> [fpm |-> 875, ktas |-> 85, fuel_key |-> "fuel_gph", fuel |-> 115],
        cruise_table |-> <<
            [fl |-> 40, ktas |-> 128, fuel_key |-> "fuel_gph", fuel |-> 100, power_pct |-> 75, notes |-> "4000ft 75% Arrow"],
            [fl |-> 65, ktas |-> 131, fuel_key |-> "fuel_gph", fuel |-> 100, power_pct |-> 75, notes |-> "6500ft 75%"],
            [fl |-> 85, ktas |-> 133, fuel_key |-> "fuel_gph", fuel |-> 95, power_pct |-> 73, notes |-> "8500ft"],
            [fl |-> 100, ktas |-> 148, fuel_key |-> "fuel_gph", fuel |-> 115, power_pct |-> 75, notes |-> "10000ft Turbo Arrow III"],
            [fl |-> 120, ktas |-> 155, fuel_key |-> "fuel_gph", fuel |-> 110, power_pct |-> 73, notes |-> "12000ft Turbo Arrow"]>>,
        descent |-> [fpm |-> 550, ktas |-> 120, fuel_key |-> "fuel_gph", fuel |-> 60],
        contingency_pct |-> 10, tier |-> 1]
      [] code = "PA24" ->
        [fuel_capacity |-> 600, fuel_unit |-> "gal", taxi_fuel |-> 10, reserve_fuel |-> 75,
        climb |-> [fpm |-> 1350, ktas |-> 100, fuel_key |-> "fuel_gph", fuel |-> 180],
        cruise_table |-> <<
            [fl |-> 60, ktas |-> 160, fuel_key |-> "fuel_gph", fuel |-> 155, power_pct |-> 75, notes |-> "6000ft 75%"],
            [fl |-> 85, ktas |-> 164, fuel_key |-> "fuel_gph", fuel |-> 150, power_pct |-> 75, notes |-> "8500ft 75% best cruise"],
            [fl |-> 100, ktas |-> 163, fuel_key |-> "fuel_gph", fuel |-> 135, power_pct |-> 65, notes |-> "10000ft 65%"]>>,
        descent |-> [fpm |-> 650, ktas |-> 140, fuel_key |-> "fuel_gph", fuel |-> 75],
        contingency_pct |-> 10, tier |-> 2]
      [] code = "BE58" ->
        [fuel_capacity |-> 1660, fuel_unit |-> "gal", taxi_fuel |-> 20, reserve_fuel |-> 150,
        climb |-> [fpm |-> 1693, ktas |-> 115, fuel_key |-> "fuel_gph", fuel |-> 300],
        cruise_table |-> <<
            [fl |-> 60, ktas |-> 185, fuel_key |-> "fuel_gph", fuel |-> 340, power_pct |-> 75, notes |-> "6000ft 75% - 195 kt 34 gph max"],
            [fl |-> 80, ktas |-> 189, fuel_key |-> "fuel_gph", fuel |-> 325, power_pct |-> 75, notes |-> "8000ft 75% best cruise"],
            [fl |-> 100, ktas |-> 190, fuel_key |-> "fuel_gph", fuel |-> 320, power_pct |-> 75, notes |-> "10000ft 75%"],
            [fl |-> 120, ktas |-> 185, fuel_key |-> "fuel_gph", fuel |-> 280, power_pct |-> 65, notes |-> "12000ft 65% - 180-185 kt typical"],
            [fl |-> 140, ktas |-> 178, fuel_key |-> "fuel_gph", fuel |-> 250, power_pct |-> 62, notes |-> "14000ft economy"]>>,
        descent |-> [fpm |-> 800, ktas |-> 170, fuel_key |-> "fuel_gph", fuel |-> 120],
        contingency_pct |-> 10, tier |-> 1]
      [] code = "BE60" ->
        [fuel_capacity |-> 1420, fuel_unit |-> "gal", taxi_fuel |-> 20, reserve_fuel |-> 160,
        climb |-> [fpm |-> 1600, ktas |-> 120, fuel_key |-> "fuel_gph", fuel |-> 400],
        cruise_table |-> <<
            [fl |-> 100, ktas |-> 215, fuel_key |-> "fuel_gph", fuel |-> 360, power_pct |-> 75, notes |-> "10000ft 75%"],
            [fl |-> 150, ktas |-> 225, fuel_key |-> "fuel_gph", fuel |-> 340, power_pct |-> 75, notes |-> "15000ft 75%"],
            [fl |-> 200, ktas |-> 230, fuel_key |-> "fuel_gph", fuel |-> 320, power_pct |-> 75, notes |-> "20000ft 75% max cruise"],
            [fl |-> 250, ktas |-> 220, fuel_key |-> "fuel_gph", fuel |-> 260, power_pct |-> 65, notes |-> "25000ft 65% LRC"]>>,
        descent |-> [fpm |-> 1100, ktas |-> 180, fuel_key |-> "fuel_gph", fuel |-> 140],
        contingency_pct |-> 10, tier |-> 2]
      [] code = "AEST" ->
        [fuel_capacity |-> 1200, fuel_unit |-> "gal", taxi_fuel |-> 15, reserve_fuel |-> 130,
        climb |-> [fpm |-> 1800, ktas |-> 130, fuel_key |-> "fuel_gph", fuel |-> 300],
        cruise_table |-> <<
            [fl |-> 100, ktas |-> 220, fuel_key |-> "fuel_gph", fuel |-> 260, power_pct |-> 75, notes |-> "10000ft 75%"],
            [fl |-> 150, ktas |-> 232, fuel_key |-> "fuel_gph", fuel |-> 250, power_pct |-> 75, notes |-> "15000ft"],
            [fl |-> 200, ktas |-> 235, fuel_key |-> "fuel_gph", fuel |-> 240, power_pct |-> 75, notes |-> "20000ft best cruise"]>>,
        descent |-> [fpm |-> 1000, ktas |-> 180, fuel_key |-> "fuel_gph", fuel |-> 120],
        contingency_pct |-> 10, tier |-> 2]
      [] code = "TBM9" ->
        [fuel_capacity |-> 2820, fuel_unit |-> "gal", taxi_fuel |-> 40, reserve_fuel |-> 400,
        climb |-> [fpm |-> 2400, ktas |-> 170, fuel_key |-> "fuel_gph", fuel |-> 800],
        cruise_table |-> <<
            [fl |-> 100, ktas |-> 270, fuel_key |-> "fuel_gph", fuel |-> 750, power_pct |-> 100, notes |-> "FL100 100% torque"],
            [fl |-> 150, ktas |-> 290, fuel_key |-> "fuel_gph", fuel |-> 700, power_pct |-> 100, notes |-> "FL150 100% torque"],
            [fl |-> 200, ktas |-> 310, fuel_key |-> "fuel_gph", fuel |-> 650, power_pct |-> 100, notes |-> "FL200 100% torque"],
            [fl |-> 250, ktas |-> 320, fuel_key |-> "fuel_gph", fuel |-> 600, power_pct |-> 100, notes |-> "FL250 100% torque ~323 KTAS"],
            [fl |-> 280, ktas |-> 323, fuel_key |-> "fuel_gph", fuel |-> 640, power_pct |-> 100, notes |-> "FL280 max cruise - 323 KTAS 64 gph"],
            [fl |-> 310, ktas |-> 290, fuel_key |-> "fuel_gph", fuel |-> 350, power_pct |-> 75, notes |-> "FL310 LRC - 290 KTAS 35 gph"],
            [fl |-> 310, ktas |-> 250, fuel_key |-> "fuel_gph", fuel |-> 300, power_pct |-> 60, notes |-> "FL310 economy - 250 KTAS 30 gph"]>>,
        descent |-> [fpm |-> 1500, ktas |-> 220, fuel_key |-> "fuel_gph", fuel |-> 250],
        contingency_pct |-> 5, tier |-> 1]
      [] code = "TBM8" ->
        [fuel_capacity |-> 2820, fuel_unit |-> "gal", taxi_fuel |-> 40, reserve_fuel |-> 400,
        climb |-> [fpm |-> 1650, ktas |-> 160, fuel_key |-> "fuel_gph", fuel |-> 750],
        cruise_table |-> <<
            [fl |-> 200, ktas |-> 290, fuel_key |-> "fuel_gph", fuel |-> 620, power_pct |-> 100, notes |-> "FL200 max cruise"],
            [fl |-> 250, ktas |-> 305, fuel_key |-> "fuel_gph", fuel |-> 600, power_pct |-> 100, notes |-> "FL250 max cruise"],
            [fl |-> 280, ktas |-> 320, fuel_key |-> "fuel_gph", fuel |-> 600, power_pct |-> 100, notes |-> "FL280 320 KTAS max cruise"],
            [fl |-> 310, ktas |-> 270, fuel_key |-> "fuel_gph", fuel |-> 350, power_pct |-> 70, notes |-> "FL310 LRC"]>>,
        descent |-> [fpm |-> 1500, ktas |-> 200, fuel_key |-> "fuel_gph", fuel |-> 220],
        contingency_pct |-> 5, tier |-> 2]
      [] code = "PC12" ->
        [fuel_capacity |-> 4020, fuel_unit |-> "gal", taxi_fuel |-> 50, reserve_fuel |-> 520,
        climb |-> [fpm |-> 1920, ktas |-> 140, fuel_key |-> "fuel_gph", fuel |-> 780],
        cruise_table |-> <<
            [fl |-> 100, ktas |-> 260, fuel_key |-> "fuel_gph", fuel |-> 800, power_pct |-> 100, notes |-> "FL100 max cruise"],
            [fl |-> 150, ktas |-> 275, fuel_key |-> "fuel_gph", fuel |-> 740, power_pct |-> 100, notes |-> "FL150 max cruise"],
            [fl |-> 200, ktas |-> 282, fuel_key |-> "fuel_gph", fuel |-> 680, power_pct |-> 100, notes |-> "FL200 max cruise"],
            [fl |-> 250, ktas |-> 285, fuel_key |-> "fuel_gph", fuel |-> 620, power_pct |-> 100, notes |-> "FL250 290 KTAS max - 62 gph"],
            [fl |-> 270, ktas |-> 282, fuel_key |-> "fuel_gph", fuel |-> 620, power_pct |-> 100, notes |-> "FL270 414 pph = 62 gph per AOPA test"],
            [fl |-> 280, ktas |-> 278, fuel_key |-> "fuel_gph", fuel |-> 550, power_pct |-> 85, notes |-> "FL280 normal cruise"],
            [fl |-> 300, ktas |-> 265, fuel_key |-> "fuel_gph", fuel |-> 480, power_pct |-> 75, notes |-> "FL300 economy"],
            [fl |-> 300, ktas |-> 225, fuel_key |-> "fuel_gph", fuel |-> 380, power_pct |-> 60, notes |-> "FL300 LRC - 225 KTAS 38 gph"]>>,
        descent |-> [fpm |-> 1800, ktas |-> 220, fuel_key |-> "fuel_gph", fuel |-> 300],
        contingency_pct |-> 5, tier |-> 1]
      [] code = "C208" ->
        [fuel_capacity |-> 3320, fuel_unit |-> "gal", taxi_fuel |-> 40, reserve_fuel |-> 450,
        climb |-> [fpm |-> 975, ktas |-> 110, fuel_key |-> "fuel_gph", fuel |-> 550],
        cruise_table |-> <<
            [fl |-> 80, ktas |-> 175, fuel_key |-> "fuel_gph", fuel |-> 400, power_pct |-> 85, notes |-> "8000ft normal cruise"],
            [fl |-> 100, ktas |-> 180, fuel_key |-> "fuel_gph", fuel |-> 380, power_pct |-> 85, notes |-> "FL100 normal cruise"],
            [fl |-> 150, ktas |-> 185, fuel_key |-> "fuel_gph", fuel |-> 350, power_pct |-> 80, notes |-> "FL150"],
            [fl |-> 200, ktas |-> 175, fuel_key |-> "fuel_gph", fuel |-> 300, power_pct |-> 70, notes |-> "FL200 LRC"]>>,
        descent |-> [fpm |-> 800, ktas |-> 150, fuel_key |-> "fuel_gph", fuel |-> 200],
        contingency_pct |-> 5, tier |-> 2]
      [] code = "DHC6" ->
        [fuel_capacity |-> 3840, fuel_unit |-> "gal", taxi_fuel |-> 50, reserve_fuel |-> 500,
        climb |-> [fpm |-> 1600, ktas |-> 110, fuel_key |-> "fuel_gph", fuel |-> 900],
        cruise_table |-> <<
            [fl |-> 60, ktas |-> 160, fuel_key |-> "fuel_gph", fuel |-> 660, power_pct |-> 90, notes |-> "6000ft normal cruise"],
            [fl |-> 100, ktas |-> 168, fuel_key |-> "fuel_gph", fuel |-> 620, power_pct |-> 90, notes |-> "FL100"],
            [fl |-> 150, ktas |-> 170, fuel_key |-> "fuel_gph", fuel |-> 560, power_pct |-> 85, notes |-> "FL150 best cruise"]>>,
        descent |-> [fpm |-> 900, ktas |-> 140, fuel_key |-> "fuel_gph", fuel |-> 300],
        contingency_pct |-> 5, tier |-> 2]
      [] code = "BE9L" ->
        [fuel_capacity |-> 3840, fuel_unit |-> "gal", taxi_fuel |-> 60, reserve_fuel |-> 480,
        climb |-> [fpm |-> 1965, ktas |-> 150, fuel_key |-> "fuel_gph", fuel |-> 1000],
        cruise_table |-> <<
            [fl |-> 120, ktas |-> 226, fuel_key |-> "fuel_gph", fuel |-> 720, power_pct |-> 85, notes |-> "FL120 high speed"],
            [fl |-> 180, ktas |-> 230, fuel_key |-> "fuel_gph", fuel |-> 680, power_pct |-> 82, notes |-> "FL180 max cruise"],
            [fl |-> 220, ktas |-> 226, fuel_key |-> "fuel_gph", fuel |-> 600, power_pct |-> 75, notes |-> "FL220 normal cruise"],
            [fl |-> 250, ktas |-> 218, fuel_key |-> "fuel_gph", fuel |-> 500, power_pct |-> 65, notes |-> "FL250 LRC"]>>,
        descent |-> [fpm |-> 1400, ktas |-> 190, fuel_key |-> "fuel_gph", fuel |-> 320],
        contingency_pct |-> 5, tier |-> 2]
      [] code = "AT76" ->
        [fuel_capacity |-> 13500, fuel_unit |-> "gal", taxi_fuel |-> 150, reserve_fuel |-> 1750,
        climb |-> [fpm |-> 1200, ktas |-> 175, fuel_key |-> "fuel_gph", fuel |-> 2400],
        cruise_table |-> <<
            [fl |-> 170, ktas |-> 275, fuel_key |-> "fuel_gph", fuel |-> 1850, power_pct |-> 90, notes |-> "FL170 - typical ops altitude"],
            [fl |-> 200, ktas |-> 277, fuel_key |-> "fuel_gph", fuel |-> 1780, power_pct |-> 90, notes |-> "FL200 normal cruise"],
            [fl |-> 250, ktas |-> 270, fuel_key |-> "fuel_gph", fuel |-> 1620, power_pct |-> 85, notes |-> "FL250 - 270 KTAS max cruise"]>>,
        descent |-> [fpm |-> 1400, ktas |-> 220, fuel_key |-> "fuel_gph", fuel |-> 800],
        contingency_pct |-> 5, tier |-> 2]
      [] code = "C408" ->
        [fuel_capacity |-> 4000, fuel_unit |-> "gal", taxi_fuel |-> 50, reserve_fuel |-> 520,
        climb |-> [fpm |-> 1200, ktas |-> 140, fuel_key |-> "fuel_gph", fuel |-> 800],
        cruise_table |-> <<
            [fl |-> 100, ktas |-> 190, fuel_key |-> "fuel_gph", fuel |-> 700, power_pct |-> 90, notes |-> "FL100"],
            [fl |-> 150, ktas |-> 198, fuel_key |-> "fuel_gph", fuel |-> 650, power_pct |-> 88, notes |-> "FL150 normal cruise"],
            [fl |-> 200, ktas |-> 200, fuel_key |-> "fuel_gph", fuel |-> 600, power_pct |-> 85, notes |-> "FL200 - 200 KTAS published"]>>,
        descent |-> [fpm |-> 1000, ktas |-> 165, fuel_key |-> "fuel_gph", fuel |-> 280],
        contingency_pct |-> 5, tier |-> 2]
      [] code = "SF50" ->
        [fuel_capacity |-> 18950, fuel_unit |-> "lbs", taxi_fuel |-> 800, reserve_fuel |-> 3600,
        climb |-> [fpm |-> 1550, ktas |-> 185, fuel_key |-> "fuel_pph", fuel |-> 6800],
        cruise_table |-> <<
            [fl |-> 200, ktas |-> 275, fuel_key |-> "fuel_pph", fuel |-> 4300, power_pct |-> 95, notes |-> "FL200 normal cruise"],
            [fl |-> 250, ktas |-> 300, fuel_key |-> "fuel_pph", fuel |-> 4100, power_pct |-> 95, notes |-> "FL250 normal cruise"],
            [fl |-> 280, ktas |-> 311, fuel_key |-> "fuel_pph", fuel |-> 3950, power_pct |-> 95, notes |-> "FL280 max cruise - 311 KTAS"],
            [fl |-> 280, ktas |-> 275, fuel_key |-> "fuel_pph", fuel |-> 3050, power_pct |-> 75, notes |-> "FL280 LRC - ~45 gph"]>>,
        descent |-> [fpm |-> 1500, ktas |-> 250, fuel_key |-> "fuel_pph", fuel |-> 2000],
        contingency_pct |-> 5, tier |-> 2]
      [] code = "C25C" ->
        [fuel_capacity |-> 58280, fuel_unit |-> "lbs", taxi_fuel |-> 2000, reserve_fuel |-> 9000,
        climb |-> [fpm |-> 3854, ktas |-> 250, fuel_key |-> "fuel_pph", fuel |-> 12000],
        cruise_table |-> <<
            [fl |-> 310, ktas |-> 453, fuel_key |-> "fuel_pph", fuel |-> 8000, power_pct |-> 100, notes |-> "FL310 max cruise - 453 KTAS"],
            [fl |-> 370, ktas |-> 445, fuel_key |-> "fuel_pph", fuel |-> 9000, power_pct |-> 100, notes |-> "FL370 high cruise M0.75"],
            [fl |-> 400, ktas |-> 440, fuel_key |-> "fuel_pph", fuel |-> 12300, power_pct |-> 100, notes |-> "FL400 high speed - M0.76 558 kg/hr"],
            [fl |-> 400, ktas |-> 339, fuel_key |-> "fuel_pph", fuel |-> 7590, power_pct |-> 65, notes |-> "FL400 LRC - M0.586 344 kg/hr"],
            [fl |-> 450, ktas |-> 425, fuel_key |-> "fuel_pph", fuel |-> 10400, power_pct |-> 100, notes |-> "FL450 max - M0.75 1040 pph"],
            [fl |-> 450, ktas |-> 390, fuel_key |-> "fuel_pph", fuel |-> 8000, power_pct |-> 80, notes |-> "FL450 normal cruise"]>>,
        descent |-> [fpm |-> 2500, ktas |-> 300, fuel_key |-> "fuel_pph", fuel |-> 4000],
        contingency_pct |-> 5, tier |-> 1]
      [] code = "PC24" ->
        [fuel_capacity |-> 62170, fuel_unit |-> "lbs", taxi_fuel |-> 2000, reserve_fuel |-> 9500,
        climb |-> [fpm |-> 4000, ktas |-> 260, fuel_key |-> "fuel_pph", fuel |-> 14000],
        cruise_table |-> <<
            [fl |-> 350, ktas |-> 440, fuel_key |-> "fuel_pph", fuel |-> 12000, power_pct |-> 100, notes |-> "FL350 high cruise"],
            [fl |-> 390, ktas |-> 445, fuel_key |-> "fuel_pph", fuel |-> 11500, power_pct |-> 100, notes |-> "FL390 max cruise - 440 KTAS"],
            [fl |-> 450, ktas |-> 430, fuel_key |-> "fuel_pph", fuel |-> 10500, power_pct |-> 90, notes |-> "FL450 normal cruise"],
            [fl |-> 450, ktas |-> 380, fuel_key |-> "fuel_pph", fuel |-> 8500, power_pct |-> 75, notes |-> "FL450 LRC"]>>,
        descent |-> [fpm |-> 2500, ktas |-> 310, fuel_key |-> "fuel_pph", fuel |-> 4200],
        contingency_pct |-> 5, tier |-> 2]
      [] code = "HN700" ->
        [fuel_capacity |-> 31450, fuel_unit |-> "lbs", taxi_fuel |-> 1200, reserve_fuel |-> 6000,
        climb |-> [fpm |-> 3990, ktas |-> 250, fuel_key |-> "fuel_pph", fuel |-> 11000],
        cruise_table |-> <<
            [fl |-> 350, ktas |-> 420, fuel_key |-> "fuel_pph", fuel |-> 9000, power_pct |-> 100, notes |-> "FL350 high cruise"],
            [fl |-> 390, ktas |-> 422, fuel_key |-> "fuel_pph", fuel |-> 8700, power_pct |-> 100, notes |-> "FL390 max cruise - 422 KTAS"],
            [fl |-> 430, ktas |-> 418, fuel_key |-> "fuel_pph", fuel |-> 8400, power_pct |-> 95, notes |-> "FL430 normal cruise"],
            [fl |-> 430, ktas |-> 380, fuel_key |-> "fuel_pph", fuel |-> 7000, power_pct |-> 78, notes |-> "FL430 LRC"]>>,
        descent |-> [fpm |-> 2200, ktas |-> 290, fuel_key |-> "fuel_pph", fuel |-> 3500],
        contingency_pct |-> 5, tier |-> 2]
      [] code = "B461" ->
        [fuel_capacity |-> 256000, fuel_unit |-> "lbs", taxi_fuel |-> 5000, reserve_fuel |-> 30000,
        climb |-> [fpm |-> 3000, ktas |-> 270, fuel_key |-> "fuel_pph", fuel |-> 80000],
        cruise_table |-> <<
            [fl |-> 250, ktas |-> 395, fuel_key |-> "fuel_pph", fuel |-> 56000, power_pct |-> 90, notes |-> "FL250 normal cruise"],
            [fl |-> 310, ktas |-> 408, fuel_key |-> "fuel_pph", fuel |-> 52000, power_pct |-> 88, notes |-> "FL310 high cruise"],
            [fl |-> 350, ktas |-> 400, fuel_key |-> "fuel_pph", fuel |-> 48000, power_pct |-> 85, notes |-> "FL350 max cruise - ~400 KTAS"]>>,
        descent |-> [fpm |-> 1800, ktas |-> 300, fuel_key |-> "fuel_pph", fuel |-> 16000],
        contingency_pct |-> 5, tier |-> 2]
      [] code = "RJ1H" ->
        [fuel_capacity |-> 256000, fuel_unit |-> "lbs", taxi_fuel |-> 5000, reserve_fuel |-> 30000,
        climb |-> [fpm |-> 2800, ktas |-> 270, fuel_key |-> "fuel_pph", fuel |-> 80000],
        cruise_table |-> <<
            [fl |-> 250, ktas |-> 395, fuel_key |-> "fuel_pph", fuel |-> 56000, power_pct |-> 90, notes |-> "FL250"],
            [fl |-> 310, ktas |-> 405, fuel_key |-> "fuel_pph", fuel |-> 51000, power_pct |-> 88, notes |-> "FL310 max cruise"]>>,
        descent |-> [fpm |-> 1800, ktas |-> 300, fuel_key |-> "fuel_pph", fuel |-> 16000],
        contingency_pct |-> 5, tier |-> 2]
      [] code = "F28" ->
        [fuel_capacity |-> 190000, fuel_unit |-> "lbs", taxi_fuel |-> 4000, reserve_fuel |-> 25000,
        climb |-> [fpm |-> 2800, ktas |-> 280, fuel_key |-> "fuel_pph", fuel |-> 80000],
        cruise_table |-> <<
            [fl |-> 250, ktas |-> 390, fuel_key |-> "fuel_pph", fuel |-> 58000, power_pct |-> 88, notes |-> "FL250"],
            [fl |-> 310, ktas |-> 408, fuel_key |-> "fuel_pph", fuel |-> 54000, power_pct |-> 88, notes |-> "FL310 normal"],
            [fl |-> 350, ktas |-> 415, fuel_key |-> "fuel_pph", fuel |-> 52000, power_pct |-> 85, notes |-> "FL350 max cruise"]>>,
        descent |-> [fpm |-> 2000, ktas |-> 310, fuel_key |-> "fuel_pph", fuel |-> 18000],
        contingency_pct |-> 5, tier |-> 2]
      [] code = "BCS3" ->
        [fuel_capacity |-> 218050, fuel_unit |-> "lbs", taxi_fuel |-> 5000, reserve_fuel |-> 30000,
        climb |-> [fpm |-> 2800, ktas |-> 300, fuel_key |-> "fuel_pph", fuel |-> 100000],
        cruise_table |-> <<
            [fl |-> 350, ktas |-> 451, fuel_key |-> "fuel_pph", fuel |-> 68000, power_pct |-> 88, notes |-> "FL350 normal cruise"],
            [fl |-> 390, ktas |-> 453, fuel_key |-> "fuel_pph", fuel |-> 64000, power_pct |-> 85, notes |-> "FL390 - Mach 0.82 max"],
            [fl |-> 410, ktas |-> 440, fuel_key |-> "fuel_pph", fuel |-> 62000, power_pct |-> 82, notes |-> "FL410 economy"]>>,
        descent |-> [fpm |-> 2000, ktas |-> 320, fuel_key |-> "fuel_pph", fuel |-> 20000],
        contingency_pct |-> 5, tier |-> 2]
      [] code = "E170" ->
        [fuel_capacity |-> 268000, fuel_unit |-> "lbs", taxi_fuel |-> 4000, reserve_fuel |-> 32000,
        climb |-> [fpm |-> 2700, ktas |-> 290, fuel_key |-> "fuel_pph", fuel |-> 95000],
        cruise_table |-> <<
            [fl |-> 330, ktas |-> 436, fuel_key |-> "fuel_pph", fuel |-> 64000, power_pct |-> 87, notes |-> "FL330 normal cruise"],
            [fl |-> 370, ktas |-> 436, fuel_key |-> "fuel_pph", fuel |-> 60000, power_pct |-> 85, notes |-> "FL370"],
            [fl |-> 410, ktas |-> 425, fuel_key |-> "fuel_pph", fuel |-> 57000, power_pct |-> 82, notes |-> "FL410 - Mach 0.82 max"]>>,
        descent |-> [fpm |-> 2000, ktas |-> 310, fuel_key |-> "fuel_pph", fuel |-> 18000],
        contingency_pct |-> 5, tier |-> 2]
      [] code = "SF34" ->
        [fuel_capacity |-> 13500, fuel_unit |-> "gal", taxi_fuel |-> 120, reserve_fuel |-> 1600,
        climb |-> [fpm |-> 1600, ktas |-> 180, fuel_key |-> "fuel_gph", fuel |-> 2400],
        cruise_table |-> <<
            [fl |-> 150, ktas |-> 250, fuel_key |-> "fuel_gph", fuel |-> 1750, power_pct |-> 90, notes |-> "FL150"],
            [fl |-> 200, ktas |-> 258, fuel_key |-> "fuel_gph", fuel |-> 1650, power_pct |-> 90, notes |-> "FL200 - typical ops"],
            [fl |-> 250, ktas |-> 255, fuel_key |-> "fuel_gph", fuel |-> 1550, power_pct |-> 87, notes |-> "FL250 max cruise - 250 KTAS"]>>,
        descent |-> [fpm |-> 1400, ktas |-> 210, fuel_key |-> "fuel_gph", fuel |-> 700],
        contingency_pct |-> 5, tier |-> 2]
      [] code = "B38M" ->
        [fuel_capacity |-> 460630, fuel_unit |-> "lbs", taxi_fuel |-> 5000, reserve_fuel |-> 55000,
        climb |-> [fpm |-> 2500, ktas |-> 290, fuel_key |-> "fuel_pph", fuel |-> 160000],
        cruise_table |-> <<
            [fl |-> 330, ktas |-> 453, fuel_key |-> "fuel_pph", fuel |-> 95000, power_pct |-> 85, notes |-> "FL330 normal CI50"],
            [fl |-> 350, ktas |-> 453, fuel_key |-> "fuel_pph", fuel |-> 90000, power_pct |-> 85, notes |-> "FL350 typical cruise"],
            [fl |-> 370, ktas |-> 453, fuel_key |-> "fuel_pph", fuel |-> 85000, power_pct |-> 82, notes |-> "FL370 step climb"],
            [fl |-> 390, ktas |-> 438, fuel_key |-> "fuel_pph", fuel |-> 80000, power_pct |-> 78, notes |-> "FL390 high altitude"],
            [fl |-> 410, ktas |-> 420, fuel_key |-> "fuel_pph", fuel |-> 75000, power_pct |-> 75, notes |-> "FL410 max ECON"]>>,
        descent |-> [fpm |-> 1800, ktas |-> 320, fuel_key |-> "fuel_pph", fuel |-> 22000],
        contingency_pct |-> 5, tier |-> 2]
      [] code = "B736" ->
        [fuel_capacity |-> 460630, fuel_unit |-> "lbs", taxi_fuel |-> 5000, reserve_fuel |-> 52000,
        climb |-> [fpm |-> 2500, ktas |-> 290, fuel_key |-> "fuel_pph", fuel |-> 140000],
        cruise_table |-> <<
            [fl |-> 330, ktas |-> 448, fuel_key |-> "fuel_pph", fuel |-> 88000, power_pct |-> 85, notes |-> "FL330"],
            [fl |-> 350, ktas |-> 448, fuel_key |-> "fuel_pph", fuel |-> 84000, power_pct |-> 85, notes |-> "FL350 typical"],
            [fl |-> 370, ktas |-> 448, fuel_key |-> "fuel_pph", fuel |-> 80000, power_pct |-> 82, notes |-> "FL370"],
            [fl |-> 410, ktas |-> 420, fuel_key |-> "fuel_pph", fuel |-> 72000, power_pct |-> 75, notes |-> "FL410 ECON"]>>,
        descent |-> [fpm |-> 2000, ktas |-> 310, fuel_key |-> "fuel_pph", fuel |-> 20000],
        contingency_pct |-> 5, tier |-> 2]
      [] code = "B738" ->
        [fuel_capacity |-> 460630, fuel_unit |-> "lbs", taxi_fuel |-> 5000, reserve_fuel |-> 55000,
        climb |-> [fpm |-> 2500, ktas |-> 290, fuel_key |-> "fuel_pph", fuel |-> 150000],
        cruise_table |-> <<
            [fl |-> 330, ktas |-> 450, fuel_key |-> "fuel_pph", fuel |-> 92000, power_pct |-> 85, notes |-> "FL330 CI50"],
            [fl |-> 350, ktas |-> 450, fuel_key |-> "fuel_pph", fuel |-> 88000, power_pct |-> 85, notes |-> "FL350 typical cruise"],
            [fl |-> 370, ktas |-> 450, fuel_key |-> "fuel_pph", fuel |-> 84000, power_pct |-> 82, notes |-> "FL370"],
            [fl |-> 390, ktas |-> 435, fuel_key |-> "fuel_pph", fuel |-> 80000, power_pct |-> 78, notes |-> "FL390"],
            [fl |-> 410, ktas |-> 418, fuel_key |-> "fuel_pph", fuel |-> 76000, power_pct |-> 75, notes |-> "FL410 ECON"]>>,
        descent |-> [fpm |-> 1800, ktas |-> 320, fuel_key |-> "fuel_pph", fuel |-> 22000],
        contingency_pct |-> 5, tier |-> 2]
      [] code = "B739" ->
        [fuel_capacity |-> 460630, fuel_unit |-> "lbs", taxi_fuel |-> 5000, reserve_fuel |-> 55000,
        climb |-> [fpm |-> 2500, ktas |-> 290, fuel_key |-> "fuel_pph", fuel |-> 155000],
        cruise_table |-> <<
            [fl |-> 330, ktas |-> 450, fuel_key |-> "fuel_pph", fuel |-> 94000, power_pct |-> 85, notes |-> "FL330"],
            [fl |-> 350, ktas |-> 450, fuel_key |-> "fuel_pph", fuel |-> 90000, power_pct |-> 85, notes |-> "FL350 typical"],
            [fl |-> 370, ktas |-> 450, fuel_key |-> "fuel_pph", fuel |-> 85000, power_pct |-> 82, notes |-> "FL370"],
            [fl |-> 410, ktas |-> 420, fuel_key |-> "fuel_pph", fuel |-> 77000, power_pct |-> 75, notes |-> "FL410 ECON"]>>,
        descent |-> [fpm |-> 1800, ktas |-> 320, fuel_key |-> "fuel_pph", fuel |-> 22000],
        contingency_pct |-> 5, tier |-> 2]
      [] code = "A20N" ->
        [fuel_capacity |-> 420000, fuel_unit |-> "lbs", taxi_fuel |-> 5000, reserve_fuel |-> 50000,
        climb |-> [fpm |-> 2000, ktas |-> 290, fuel_key |-> "fuel_pph", fuel |-> 140000],
        cruise_table |-> <<
            [fl |-> 330, ktas |-> 450, fuel_key |-> "fuel_pph", fuel |-> 90000, power_pct |-> 85, notes |-> "FL330 CI100"],
            [fl |-> 350, ktas |-> 454, fuel_key |-> "fuel_pph", fuel |-> 85000, power_pct |-> 85, notes |-> "FL350 typical cruise"],
            [fl |-> 370, ktas |-> 450, fuel_key |-> "fuel_pph", fuel |-> 80000, power_pct |-> 82, notes |-> "FL370"],
            [fl |-> 390, ktas |-> 440, fuel_key |-> "fuel_pph", fuel |-> 75000, power_pct |-> 78, notes |-> "FL390 ECON"],
            [fl |-> 410, ktas |-> 425, fuel_key |-> "fuel_pph", fuel |-> 72000, power_pct |-> 75, notes |-> "FL410 max ECON"]>>,
        descent |-> [fpm |-> 1800, ktas |-> 300, fuel_key |-> "fuel_pph", fuel |-> 20000],
        contingency_pct |-> 5, tier |-> 2]
      [] code = "A320" ->
        [fuel_capacity |-> 420000, fuel_unit |-> "lbs", taxi_fuel |-> 5000, reserve_fuel |-> 50000,
        climb |-> [fpm |-> 1800, ktas |-> 290, fuel_key |-> "fuel_pph", fuel |-> 150000],
        cruise_table |-> <<
            [fl |-> 310, ktas |-> 448, fuel_key |-> "fuel_pph", fuel |-> 95000, power_pct |-> 87, notes |-> "FL310 typical"],
            [fl |-> 330, ktas |-> 450, fuel_key |-> "fuel_pph", fuel |-> 92000, power_pct |-> 85, notes |-> "FL330 normal cruise"],
            [fl |-> 350, ktas |-> 450, fuel_key |-> "fuel_pph", fuel |-> 88000, power_pct |-> 85, notes |-> "FL350"],
            [fl |-> 370, ktas |-> 445, fuel_key |-> "fuel_pph", fuel |-> 84000, power_pct |-> 82, notes |-> "FL370 step"],
            [fl |-> 390, ktas |-> 435, fuel_key |-> "fuel_pph", fuel |-> 80000, power_pct |-> 78, notes |-> "FL390 max ECON"]>>,
        descent |-> [fpm |-> 1800, ktas |-> 300, fuel_key |-> "fuel_pph", fuel |-> 22000],
        contingency_pct |-> 5, tier |-> 2]
      [] code = "A319" ->
        [fuel_capacity |-> 380000, fuel_unit |-> "lbs", taxi_fuel |-> 5000, reserve_fuel |-> 48000,
        climb |-> [fpm |-> 2000, ktas |-> 290, fuel_key |-> "fuel_pph", fuel |-> 130000],
        cruise_table |-> <<
            [fl |-> 330, ktas |-> 448, fuel_key |-> "fuel_pph", fuel |-> 88000, power_pct |-> 85, notes |-> "FL330 normal cruise"],
            [fl |-> 350, ktas |-> 448, fuel_key |-> "fuel_pph", fuel |-> 84000, power_pct |-> 85, notes |-> "FL350"],
            [fl |-> 390, ktas |-> 430, fuel_key |-> "fuel_pph", fuel |-> 78000, power_pct |-> 78, notes |-> "FL390 ECON"]>>,
        descent |-> [fpm |-> 1800, ktas |-> 300, fuel_key |-> "fuel_pph", fuel |-> 20000],
        contingency_pct |-> 5, tier |-> 2]
      [] code = "A21N" ->
        [fuel_capacity |-> 545000, fuel_unit |-> "lbs", taxi_fuel |-> 6000, reserve_fuel |-> 58000,
        climb |-> [fpm |-> 2000, ktas |-> 290, fuel_key |-> "fuel_pph", fuel |-> 160000],
        cruise_table |-> <<
            [fl |-> 330, ktas |-> 450, fuel_key |-> "fuel_pph", fuel |-> 100000, power_pct |-> 85, notes |-> "FL330 normal"],
            [fl |-> 350, ktas |-> 454, fuel_key |-> "fuel_pph", fuel |-> 95000, power_pct |-> 85, notes |-> "FL350 typical"],
            [fl |-> 390, ktas |-> 445, fuel_key |-> "fuel_pph", fuel |-> 88000, power_pct |-> 80, notes |-> "FL390 ECON"],
            [fl |-> 410, ktas |-> 430, fuel_key |-> "fuel_pph", fuel |-> 84000, power_pct |-> 77, notes |-> "FL410 max"]>>,
        descent |-> [fpm |-> 1800, ktas |-> 300, fuel_key |-> "fuel_pph", fuel |-> 22000],
        contingency_pct |-> 5, tier |-> 2]
      [] code = "B78X" ->
        [fuel_capacity |-> 2230000, fuel_unit |-> "lbs", taxi_fuel |-> 15000, reserve_fuel |-> 200000,
        climb |-> [fpm |-> 2200, ktas |-> 310, fuel_key |-> "fuel_pph", fuel |-> 450000],
        cruise_table |-> <<
            [fl |-> 310, ktas |-> 488, fuel_key |-> "fuel_pph", fuel |-> 280000, power_pct |-> 90, notes |-> "FL310 initial cruise"],
            [fl |-> 330, ktas |-> 492, fuel_key |-> "fuel_pph", fuel |-> 260000, power_pct |-> 88, notes |-> "FL330 normal"],
            [fl |-> 350, ktas |-> 492, fuel_key |-> "fuel_pph", fuel |-> 240000, power_pct |-> 85, notes |-> "FL350 typical"],
            [fl |-> 390, ktas |-> 478, fuel_key |-> "fuel_pph", fuel |-> 220000, power_pct |-> 80, notes |-> "FL390 ECON"],
            [fl |-> 430, ktas |-> 460, fuel_key |-> "fuel_pph", fuel |-> 200000, power_pct |-> 75, notes |-> "FL430 max ECON"]>>,
        descent |-> [fpm |-> 1800, ktas |-> 350, fuel_key |-> "fuel_pph", fuel |-> 50000],
        contingency_pct |-> 3, tier |-> 2]
      [] code = "A333" ->
        [fuel_capacity |-> 1940000, fuel_unit |-> "lbs", taxi_fuel |-> 15000, reserve_fuel |-> 180000,
        climb |-> [fpm |-> 2000, ktas |-> 300, fuel_key |-> "fuel_pph", fuel |-> 400000],
        cruise_table |-> <<
            [fl |-> 310, ktas |-> 480, fuel_key |-> "fuel_pph", fuel |-> 260000, power_pct |-> 90, notes |-> "FL310 initial"],
            [fl |-> 330, ktas |-> 484, fuel_key |-> "fuel_pph", fuel |-> 240000, power_pct |-> 88, notes |-> "FL330 normal cruise"],
            [fl |-> 350, ktas |-> 484, fuel_key |-> "fuel_pph", fuel |-> 220000, power_pct |-> 85, notes |-> "FL350"],
            [fl |-> 370, ktas |-> 478, fuel_key |-> "fuel_pph", fuel |-> 205000, power_pct |-> 82, notes |-> "FL370 step"],
            [fl |-> 410, ktas |-> 460, fuel_key |-> "fuel_pph", fuel |-> 190000, power_pct |-> 78, notes |-> "FL410 ECON"]>>,
        descent |-> [fpm |-> 1800, ktas |-> 340, fuel_key |-> "fuel_pph", fuel |-> 50000],
        contingency_pct |-> 3, tier |-> 2]
      [] code = "B772" ->
        [fuel_capacity |-> 2800000, fuel_unit |-> "lbs", taxi_fuel |-> 18000, reserve_fuel |-> 220000,
        climb |-> [fpm |-> 2000, ktas |-> 320, fuel_key |-> "fuel_pph", fuel |-> 550000],
        cruise_table |-> <<
            [fl |-> 310, ktas |-> 488, fuel_key |-> "fuel_pph", fuel |-> 350000, power_pct |-> 90, notes |-> "FL310 initial"],
            [fl |-> 330, ktas |-> 492, fuel_key |-> "fuel_pph", fuel |-> 330000, power_pct |-> 88, notes |-> "FL330 normal"],
            [fl |-> 350, ktas |-> 492, fuel_key |-> "fuel_pph", fuel |-> 310000, power_pct |-> 85, notes |-> "FL350"],
            [fl |-> 370, ktas |-> 486, fuel_key |-> "fuel_pph", fuel |-> 290000, power_pct |-> 82, notes |-> "FL370"],
            [fl |-> 410, ktas |-> 466, fuel_key |-> "fuel_pph", fuel |-> 260000, power_pct |-> 76, notes |-> "FL410 ECON"]>>,
        descent |-> [fpm |-> 1500, ktas |-> 350, fuel_key |-> "fuel_pph", fuel |-> 70000],
        contingency_pct |-> 3, tier |-> 2]
      [] code = "B77W" ->
        [fuel_capacity |-> 3200000, fuel_unit |-> "lbs", taxi_fuel |-> 20000, reserve_fuel |-> 250000,
        climb |-> [fpm |-> 2000, ktas |-> 320, fuel_key |-> "fuel_pph", fuel |-> 600000],
        cruise_table |-> <<
            [fl |-> 310, ktas |-> 488, fuel_key |-> "fuel_pph", fuel |-> 380000, power_pct |-> 90, notes |-> "FL310 initial cruise"],
            [fl |-> 330, ktas |-> 492, fuel_key |-> "fuel_pph", fuel |-> 360000, power_pct |-> 88, notes |-> "FL330 normal"],
            [fl |-> 350, ktas |-> 492, fuel_key |-> "fuel_pph", fuel |-> 340000, power_pct |-> 85, notes |-> "FL350"],
            [fl |-> 370, ktas |-> 488, fuel_key |-> "fuel_pph", fuel |-> 320000, power_pct |-> 82, notes |-> "FL370 step"],
            [fl |-> 390, ktas |-> 480, fuel_key |-> "fuel_pph", fuel |-> 300000, power_pct |-> 78, notes |-> "FL390"],
            [fl |-> 410, ktas |-> 465, fuel_key |-> "fuel_pph", fuel |-> 280000, power_pct |-> 74, notes |-> "FL410 max"]>>,
        descent |-> [fpm |-> 1500, ktas |-> 350, fuel_key |-> "fuel_pph", fuel |-> 80000],
        contingency_pct |-> 3, tier |-> 1]
      [] code = "B77F" ->
        [fuel_capacity |-> 3200000, fuel_unit |-> "lbs", taxi_fuel |-> 20000, reserve_fuel |-> 260000,
        climb |-> [fpm |-> 1800, ktas |-> 310, fuel_key |-> "fuel_pph", fuel |-> 650000],
        cruise_table |-> <<
            [fl |-> 310, ktas |-> 484, fuel_key |-> "fuel_pph", fuel |-> 420000, power_pct |-> 92, notes |-> "FL310 initial (heavy)"],
            [fl |-> 330, ktas |-> 488, fuel_key |-> "fuel_pph", fuel |-> 390000, power_pct |-> 88, notes |-> "FL330"],
            [fl |-> 350, ktas |-> 488, fuel_key |-> "fuel_pph", fuel |-> 360000, power_pct |-> 85, notes |-> "FL350"],
            [fl |-> 390, ktas |-> 476, fuel_key |-> "fuel_pph", fuel |-> 320000, power_pct |-> 80, notes |-> "FL390"]>>,
        descent |-> [fpm |-> 1500, ktas |-> 340, fuel_key |-> "fuel_pph", fuel |-> 80000],
        contingency_pct |-> 3, tier |-> 2]
      [] code = "B748" ->
        [fuel_capacity |-> 4060000, fuel_unit |-> "lbs", taxi_fuel |-> 25000, reserve_fuel |-> 350000,
        climb |-> [fpm |-> 1800, ktas |-> 310, fuel_key |-> "fuel_pph", fuel |-> 800000],
        cruise_table |-> <<
            [fl |-> 310, ktas |-> 488, fuel_key |-> "fuel_pph", fuel |-> 480000, power_pct |-> 90, notes |-> "FL310 initial"],
            [fl |-> 330, ktas |-> 492, fuel_key |-> "fuel_pph", fuel |-> 450000, power_pct |-> 88, notes |-> "FL330"],
            [fl |-> 350, ktas |-> 492, fuel_key |-> "fuel_pph", fuel |-> 420000, power_pct |-> 85, notes |-> "FL350"],
            [fl |-> 390, ktas |-> 475, fuel_key |-> "fuel_pph", fuel |-> 380000, power_pct |-> 80, notes |-> "FL390 ECON"]>>,
        descent |-> [fpm |-> 1600, ktas |-> 350, fuel_key |-> "fuel_pph", fuel |-> 100000],
        contingency_pct |-> 3, tier |-> 2]
      [] code = "A388" ->
        [fuel_capacity |-> 5580000, fuel_unit |-> "lbs", taxi_fuel |-> 30000, reserve_fuel |-> 480000,
        climb |-> [fpm |-> 1800, ktas |-> 310, fuel_key |-> "fuel_pph", fuel |-> 1000000],
        cruise_table |-> <<
            [fl |-> 310, ktas |-> 488, fuel_key |-> "fuel_pph", fuel |-> 580000, power_pct |-> 90, notes |-> "FL310 initial"],
            [fl |-> 330, ktas |-> 492, fuel_key |-> "fuel_pph", fuel |-> 550000, power_pct |-> 88, notes |-> "FL330"],
            [fl |-> 350, ktas |-> 492, fuel_key |-> "fuel_pph", fuel |-> 520000, power_pct |-> 85, notes |-> "FL350 typical cruise"],
            [fl |-> 390, ktas |-> 478, fuel_key |-> "fuel_pph", fuel |-> 480000, power_pct |-> 80, notes |-> "FL390 ECON"]>>,
        descent |-> [fpm |-> 1500, ktas |-> 340, fuel_key |-> "fuel_pph", fuel |-> 120000],
        contingency_pct |-> 3, tier |-> 2]
      [] code = "A400" ->
        [fuel_capacity |-> 1960000, fuel_unit |-> "lbs", taxi_fuel |-> 15000, reserve_fuel |-> 180000,
        climb |-> [fpm |-> 1800, ktas |-> 280, fuel_key |-> "fuel_pph", fuel |-> 400000],
        cruise_table |-> <<
            [fl |-> 250, ktas |-> 360, fuel_key |-> "fuel_pph", fuel |-> 280000, power_pct |-> 90, notes |-> "FL250 tactical cruise"],
            [fl |-> 300, ktas |-> 380, fuel_key |-> "fuel_pph", fuel |-> 260000, power_pct |-> 88, notes |-> "FL300 normal"],
            [fl |-> 370, ktas |-> 390, fuel_key |-> "fuel_pph", fuel |-> 240000, power_pct |-> 85, notes |-> "FL370 max cruise - ~M0.72"]>>,
        descent |-> [fpm |-> 1800, ktas |-> 310, fuel_key |-> "fuel_pph", fuel |-> 80000],
        contingency_pct |-> 5, tier |-> 2]

POH == [code \in POHCodes |-> POHEntry(code)]

(* A profile without cruise rows: the "missing reference data" case of the  *)
(* error taxonomy.  get_poh reads whatever the registry dict holds.         *)
NoCruiseCode == "XNOC"

POHNoCruise ==
    [code \in POHCodes \cup {NoCruiseCode} |->
        IF code = NoCruiseCode THEN [POHEntry("P210") EXCEPT !.cruise_table = <<>>]
        ELSE POHEntry(code)]

Registry(name) == IF name = "shipped" THEN POH ELSE POHNoCruise

get_poh(reg, simbrief_code) ==
    IF simbrief_code \in DOMAIN Registry(reg) THEN Registry(reg)[simbrief_code] ELSE None

(* index of the first row of rows (a set of indices) with the largest fl:   *)
(* max(below, key=lambda r: r["fl"])                                        *)
FirstMaxFl(table, idx) ==
    CHOOSE i \in idx : /\ \A j \in idx : table[j].fl <= table[i].fl
                       /\ \A j \in idx : table[j].fl = table[i].fl => i <= j

FirstMinFl(table, idx) ==
    CHOOSE i \in idx : /\ \A j \in idx : table[j].fl >= table[i].fl
                       /\ \A j \in idx : table[j].fl = table[i].fl => i <= j

InterpNotes(r1, r2) == "Interpolated FL" \o ToString(r1.fl) \o "-FL" \o ToString(r2.fl)

RatioFromUpper(target_fl, lo_fl, hi_fl) == Rat(hi_fl - target_fl, hi_fl - lo_fl)

(* ratio = (target_fl - r1["fl"]) / (r2["fl"] - r1["fl"]) *)
Ratio(target_fl, lo_fl, hi_fl) == Rat(target_fl - lo_fl, hi_fl - lo_fl)

Lerp(x1, x2, ratio) == RAdd(RInt(x1), RMul(ratio, RInt(x2 - x1)))

LerpTenths(x1, x2, ratio) == RAdd(Tenths(x1), RMul(ratio, RSub(Tenths(x2), Tenths(x1))))

(* the interpolated row built at the end of get_cruise_row *)
InterpolateRow(r1, r2, target_fl, tieUp) ==
    LET ratio == Ratio(target_fl, r1.fl, r2.fl)
    IN  [fl        |-> target_fl,
         ktas      |-> RoundHalfEven(Lerp(r1.ktas, r2.ktas, ratio)),
         fuel_key  |-> r1.fuel_key,
         fuel      |-> RoundTenths(LerpTenths(r1.fuel, r2.fuel, ratio), tieUp),
         power_pct |-> RoundHalfEven(Lerp(r1.power_pct, r2.power_pct, ratio)),
         notes     |-> InterpNotes(r1, r2)]

(* get_cruise_row without the exact-match loop and with strict brackets *)
get_cruise_row_strict(poh, target_fl, tieUp) ==
    LET table == Get(poh, "cruise_table", <<>>)
        below == {i \in DOMAIN table : table[i].fl < target_fl}
        above == {i \in DOMAIN table : table[i].fl > target_fl}
    IN  IF table = <<>> THEN EmptyDict
        ELSE IF below = {} THEN table[1]
        ELSE IF above = {} THEN table[Len(table)]
        ELSE InterpolateRow(table[FirstMaxFl(table, below)],
                            table[FirstMinFl(table, above)], target_fl, tieUp)

(* get_cruise_row extending the first table segment below the table instead *)
(* of returning table[0]                                                    *)
get_cruise_row_extrapolated(poh, target_fl, tieUp) ==
    LET table == Get(poh, "cruise_table", <<>>)
        exact == {i \in DOMAIN table : table[i].fl = target_fl}
        below == {i \in DOMAIN table : table[i].fl <= target_fl}
        above == {i \in DOMAIN table : table[i].fl >= target_fl}
    IN  IF table = <<>> THEN EmptyDict
        ELSE IF exact # {} THEN table[CHOOSE i \in exact : \A j \in exact : i <= j]
        ELSE IF below = {} THEN InterpolateRow(table[1], table[2], target_fl, tieUp)
        ELSE IF above = {} THEN table[Len(table)]
        ELSE LET r1 == table[FirstMaxFl(table, below)]
                 r2 == table[FirstMinFl(table, above)]
             IN  IF r1.fl = r2.fl THEN r1
                 ELSE InterpolateRow(r1, r2, target_fl, tieUp)

get_cruise_row(poh, target_fl, tieUp) ==
    LET table == Get(poh, "cruise_table", <<>>)
        exact == {i \in DOMAIN table : table[i].fl = target_fl}
        below == {i \in DOMAIN table : table[i].fl <= target_fl}
        above == {i \in DOMAIN table : table[i].fl >= target_fl}
    IN  IF table = <<>> THEN EmptyDict
        ELSE IF exact # {} THEN table[CHOOSE i \in exact : \A j \in exact : i <= j]
        ELSE IF below = {} THEN table[1]
        ELSE IF above = {} THEN table[Len(table)]
        ELSE LET r1 == table[FirstMaxFl(table, below)]
                 r2 == table[FirstMinFl(table, above)]
             IN  IF r1.fl = r2.fl THEN r1
                 ELSE InterpolateRow(r1, r2, target_fl, tieUp)

fuel_unit_label(poh) == IF Get(poh, "fuel_unit", "gal") = "lbs" THEN "lbs/hr" ELSE "gal/hr"

(***************************************************************************)
(* src/fuel_plan.py                                                        *)
(***************************************************************************)
(* float(a.get("elevation_ft") or a.get("elev_ft") or 0): a missing key, *)
(* None and 0 are all falsy and fall through to the next alternative.       *)
Elevation(airport) ==
    LET e1 == Get(airport, "elevation_ft", 0)
        e2 == Get(airport, "elev_ft", 0)
    IN  IF e1 # 0 THEN e1 ELSE IF e2 # 0 THEN e2 ELSE 0

(* cruise_row.get(fuel_key, 0): the burn rate the row carries under fuel_key *)
RowFuel(row, fuel_key) ==
    IF "fuel_key" \in DOMAIN row /\ row.fuel_key = fuel_key THEN Tenths(row.fuel) ELSE RZero

(* fuel_key = "fuel_pph" if poh["fuel_unit"] == "lbs" else "fuel_gph" *)
FuelKey(poh) == IF poh.fuel_unit = "lbs" THEN "fuel_pph" ELSE "fuel_gph"

(* max(0, climb_to - elev) *)
VerticalDelta(climb_to, elev) == IF climb_to - elev > 0 THEN climb_to - elev ELSE 0

(* time = delta / fpm / 60 *)
LegTime(delta, phase) == RDiv(RDiv(RInt(delta), RInt(phase.fpm)), RInt(60))

(* a climb or descent leg flown for time_hr: distance = ktas * time,       *)
(* fuel = burn * time                                                      *)
Leg(time_hr, phase, fuel_key) ==
    [time_hr   |-> time_hr,
     dist_nm   |-> RMul(RInt(phase.ktas), time_hr),
     fuel      |-> RMul(RowFuel(phase, fuel_key), time_hr),
     burn_rate |-> RowFuel(phase, fuel_key)]

ClimbLeg(poh, dep, cruise_fl) ==
    Leg(LegTime(VerticalDelta(cruise_fl * 100, Elevation(dep)), poh.climb),
        poh.climb, FuelKey(poh))

DescentLeg(poh, arr, cruise_fl) ==
    Leg(LegTime(VerticalDelta(cruise_fl * 100, Elevation(arr)), poh.descent),
        poh.descent, FuelKey(poh))

CruiseDistUnclamped(dist_nm, climb_dist_nm, descent_dist_nm) ==
    RSub(RSub(RInt(dist_nm), climb_dist_nm), descent_dist_nm)

(* cruise_dist_nm = max(0, dist_nm - climb_dist_nm - descent_dist_nm) *)
CruiseDist(dist_nm, climb_dist_nm, descent_dist_nm) ==
    RMax(RZero, RSub(RSub(RInt(dist_nm), climb_dist_nm), descent_dist_nm))

(* cruise_time_hr = cruise_dist_nm / cruise_ktas if cruise_ktas > 0 else 0 *)
CruiseTime(cruise_dist_nm, cruise_ktas) ==
    IF cruise_ktas > 0 THEN RDiv(cruise_dist_nm, RInt(cruise_ktas)) ELSE RZero

CruiseLegTimed(cruise_dist_nm, cruise_time_hr, cruise_ktas, cruise_burn) ==
    [dist_nm   |-> cruise_dist_nm,
     time_hr   |-> cruise_time_hr,
     fuel      |-> RMul(cruise_burn, cruise_time_hr),
     ktas      |-> cruise_ktas,
     burn_rate |-> cruise_burn]

CruiseLegOver(cruise_dist_nm, cruise_ktas, cruise_burn) ==
    CruiseLegTimed(cruise_dist_nm, CruiseTime(cruise_dist_nm, cruise_ktas),
                   cruise_ktas, cruise_burn)

(* the cruise leg: row values with their fallbacks, then distance, time, fuel *)
CruiseLeg(poh, aircraft, dist_nm, cruise_row, climb, descent) ==
    CruiseLegOver(CruiseDist(dist_nm, climb.dist_nm, descent.dist_nm),
                  Get(cruise_row, "ktas", Get(aircraft, "cruise_kts", 250)),
                  RowFuel(cruise_row, FuelKey(poh)))

BlockFuelNoContingency(taxi, trip_fuel, contingency, reserve) ==
    RAdd(RAdd(taxi, trip_fuel), reserve)

(* block_fuel = taxi + trip_fuel + contingency + reserve *)
BlockFuel(taxi, trip_fuel, contingency, reserve) ==
    RAdd(RAdd(RAdd(taxi, trip_fuel), contingency), reserve)

(* endurance_hr = (usable - taxi - reserve) / cruise_burn if cruise_burn > 0 else 0 *)
Endurance(poh, cruise_burn) ==
    IF RLt(RZero, cruise_burn)
    THEN RDiv(RSub(RSub(Tenths(poh.fuel_capacity), Tenths(poh.taxi_fuel)),
                   Tenths(poh.reserve_fuel)), cruise_burn)
    ELSE RZero

(* the returned dict *)
PlanRecord(poh, cruise_fl, cruise_row, climb, cruise, descent, trip_fuel, contingency, block_fuel, endurance_hr) ==
    [poh               |-> poh,
     fuel_key          |-> FuelKey(poh),
     unit              |-> poh.fuel_unit,
     unit_hr           |-> fuel_unit_label(poh),
     cruise_fl         |-> cruise_fl,
     cruise_ktas       |-> cruise.ktas,
     cruise_notes      |-> Get(cruise_row, "notes", ""),
     power_pct         |-> Get(cruise_row, "power_pct", 75),
     taxi_fuel         |-> Tenths(poh.taxi_fuel),
     climb_fuel        |-> climb.fuel,
     climb_time_hr     |-> climb.time_hr,
     climb_dist_nm     |-> climb.dist_nm,
     climb_burn_rate   |-> climb.burn_rate,
     cruise_fuel       |-> cruise.fuel,
     cruise_time_hr    |-> cruise.time_hr,
     cruise_dist_nm    |-> cruise.dist_nm,
     cruise_burn_rate  |-> cruise.burn_rate,
     descent_fuel      |-> descent.fuel,
     descent_time_hr   |-> descent.time_hr,
     descent_dist_nm   |-> descent.dist_nm,
     descent_burn_rate |-> descent.burn_rate,
     trip_fuel         |-> trip_fuel,
     contingency       |-> contingency,
     reserve           |-> Tenths(poh.reserve_fuel),
     block_fuel        |-> block_fuel,
     total_time_hr     |-> RAdd(RAdd(climb.time_hr, cruise.time_hr), descent.time_hr),
     usable_capacity   |-> Tenths(poh.fuel_capacity),
     fuel_ok           |-> RLe(block_fuel, Tenths(poh.fuel_capacity)),
     max_range_nm      |-> RMul(endurance_hr, RInt(cruise.ktas)),
     endurance_hr      |-> endurance_hr]

PlanWithContingency(poh, cruise_fl, cruise_row, climb, cruise, descent, trip_fuel, contingency) ==
    PlanRecord(poh, cruise_fl, cruise_row, climb, cruise, descent, trip_fuel, contingency,
               BlockFuel(Tenths(poh.taxi_fuel), trip_fuel, contingency,
                         Tenths(poh.reserve_fuel)),
               Endurance(poh, cruise.burn_rate))

(* contingency = trip_fuel * (poh["contingency_pct"] / 100) *)
PlanWithTrip(poh, cruise_fl, cruise_row, climb, cruise, descent, trip_fuel) ==
    PlanWithContingency(poh, cruise_fl, cruise_row, climb, cruise, descent, trip_fuel,
                        RMul(trip_fuel, Rat(poh.contingency_pct, 100)))

(* trip_fuel = climb_fuel + cruise_fuel + descent_fuel *)
PlanWithCruise(poh, cruise_fl, cruise_row, climb, cruise, descent) ==
    PlanWithTrip(poh, cruise_fl, cruise_row, climb, cruise, descent,
                 RAdd(RAdd(climb.fuel, cruise.fuel), descent.fuel))

PlanWithLegs(poh, aircraft, dist_nm, cruise_fl, cruise_row, climb, descent) ==
    PlanWithCruise(poh, cruise_fl, cruise_row, climb,
                   CruiseLeg(poh, aircraft, dist_nm, cruise_row, climb, descent), descent)

(* the body of compute_fuel_plan once the profile is looked up *)
PlanForPoh(poh, dep, arr, aircraft, dist_nm, cruise_fl, tieUp) ==
    IF poh = None THEN None
    ELSE PlanWithLegs(poh, aircraft, dist_nm, cruise_fl,
                      get_cruise_row(poh, cruise_fl, tieUp),
                      ClimbLeg(poh, dep, cruise_fl),
                      DescentLeg(poh, arr, cruise_fl))

compute_fuel_plan(reg, dep, arr, aircraft, dist_nm, cruise_fl, tieUp) ==
    PlanForPoh(get_poh(reg, Get(aircraft, "simbrief_code", "")),
               dep, arr, aircraft, dist_nm, cruise_fl, tieUp)

(* Python truthiness of a plan argument: None and {} are falsy *)
Falsy(fp) == fp = None \/ DOMAIN fp = {}

Text(lines) == [tag |-> "text", lines |-> lines]

(* _t(hrs): hours and rounded minutes of a duration, before "{h}:{m:02d}" *)
HoursMinutes(hrs) ==
    LET h == hrs.n \div hrs.d
        m == RoundHalfEven(RMul(RSub(hrs, RInt(h)), RInt(60)))
    IN  <<h, m>>

(* The report is modelled by the lines the properties below use: the       *)
(* no-data line, or the phase times and capacity verdict of the full report *)
FullReport(fp) ==
    [tag      |-> "text",
     lines    |-> <<"report">>,
     times    |-> [climb     |-> HoursMinutes(fp.climb_time_hr),
                   cruise    |-> HoursMinutes(fp.cruise_time_hr),
                   descent   |-> HoursMinutes(fp.descent_time_hr),
                   total     |-> HoursMinutes(fp.total_time_hr),
                   endurance |-> HoursMinutes(fp.endurance_hr)],
     exceeds  |-> ~fp.fuel_ok]

(* format_fuel_plan without its "if not fp" guard: fp["poh"] on None *)
format_fuel_plan_unguarded(fp) ==
    IF Falsy(fp) THEN Raise("TypeError") ELSE FullReport(fp)

format_fuel_plan(fp) ==
    IF Falsy(fp) THEN Text(<<"No POH data available for this aircraft.">>)
    ELSE FullReport(fp)

summary_line(fp) ==
    IF Falsy(fp) THEN Text(<<"Fuel: No POH data">>)
    ELSE [tag   |-> "text",
          lines |-> <<"summary">>,
          ok    |-> fp.fuel_ok,
          unit  |-> fp.unit,
          tier  |-> fp.poh.tier]

(***************************************************************************)
(* src/winds_aloft.py: decoding of one FD column token.  A str is a       *)
(* string; Ch(s, i) is its i-th character (counting from 1).               *)
(***************************************************************************)
Ch(s, i) == SubSeq(s, i, i)

Digits == "0123456789"

IsDigit(c) == \E v \in 1..10 : Ch(Digits, v) = c

DigitVal(c) == (CHOOSE v \in 1..10 : Ch(Digits, v) = c) - 1

AllDigits(s) == \A i \in 1..Len(s) : IsDigit(Ch(s, i))

RECURSIVE DecimalValue(_)
DecimalValue(s) ==
    IF s = "" THEN 0
    ELSE 10 * DecimalValue(SubSeq(s, 1, Len(s) - 1)) + DigitVal(Ch(s, Len(s)))

ValueError == Raise("ValueError")

(* int(s) on a str: an optional sign and at least one decimal digit give *)
(* the value [tag |-> "int", v |-> ..], anything else raises ValueError   *)
IntOfDigits(s, body) ==
    IF body = "" \/ ~AllDigits(body) THEN ValueError
    ELSE [tag |-> "int",
          v   |-> IF Ch(s, 1) = "-" THEN -DecimalValue(body) ELSE DecimalValue(body)]

int(s) == IntOfDigits(s, IF Ch(s, 1) \in {"+", "-"} THEN Tail(s) ELSE s)

(* str.strip() *)
RECURSIVE strip(_)
strip(s) ==
    IF s = "" THEN s
    ELSE IF Ch(s, 1) = " " THEN strip(Tail(s))
    ELSE IF Ch(s, Len(s)) = " " THEN strip(SubSeq(s, 1, Len(s) - 1))
    ELSE s

(* s[a:] and s[:b] *)
SliceFrom(s, a) == SubSeq(s, a + 1, Len(s))

SliceTo(s, b) == SubSeq(s, 1, IF b < Len(s) THEN b ELSE Len(s))

(* re.match(r'^(\d{2})(\d{2})([+-]?\d+)?$', code): the three groups (has3 *)
(* tells whether group 3 took part in the match), or None                  *)
SuffixMatches(t) ==
    /\ t # ""
    /\ AllDigits(IF Ch(t, 1) \in {"+", "-"} THEN Tail(t) ELSE t)
    /\ (Ch(t, 1) \in {"+", "-"} => Len(t) > 1)

MatchFd(code) ==
    IF Len(code) >= 4 /\ AllDigits(SliceTo(code, 4))
          /\ (Len(code) = 4 \/ SuffixMatches(SliceFrom(code, 4)))
    THEN [g1 |-> SubSeq(code, 1, 2), g2 |-> SubSeq(code, 3, 4),
          g3 |-> SliceFrom(code, 4), has3 |-> Len(code) > 4]
    ELSE None

IsLightAndVariableExact(code) == code = "9900"

(* code[:4] == '9900' *)
IsLightAndVariable(code) == SliceTo(code, 4) = "9900"

HighWindFrom50(dd) == dd >= 50

(* if dd > 50 *)
HighWind(dd) == dd > 50

AlwaysNegativeAbove(alt_ft) == alt_ft > 24000

(* if alt_ft >= 24000: temp = -abs(temp) *)
AlwaysNegative(alt_ft) == alt_ft >= 24000

(* try: temp = int(..) with the except branch leaving or setting 0 *)
IntOrZero(t) == IF t = ValueError THEN 0 ELSE t.v

SignedForAltitude(temp, alt_ft) == IF AlwaysNegative(alt_ft) THEN -Abs(temp) ELSE temp

(* the light-and-variable branch: int(code[4:]) is negated at or above    *)
(* 24000 ft inside the try, a ValueError leaves temp = 0                  *)
LightTemp(code, alt_ft) ==
    IF Len(code) > 4
    THEN SignedForAltitude(IntOrZero(int(SliceFrom(code, 4))), alt_ft)
    ELSE 0

DecodedSample(dd, ss, temp, alt_ft) ==
    [dir      |-> (IF HighWind(dd) THEN dd - 50 ELSE dd) * 10,
     speed_kt |-> IF HighWind(dd) THEN ss + 100 ELSE ss,
     temp_c   |-> SignedForAltitude(temp, alt_ft),
     variable |-> FALSE]

DecodeMatch(m, alt_ft) ==
    IF m = None THEN None
    ELSE DecodedSample(DecimalValue(m.g1), DecimalValue(m.g2),
                       IF m.has3 THEN IntOrZero(int(m.g3)) ELSE 0, alt_ft)

DecodeStripped(code, alt_ft) ==
    IF code = "" \/ code = "////" THEN None
    ELSE IF IsLightAndVariable(code)
         THEN [dir |-> 0, speed_kt |-> 0, temp_c |-> LightTemp(code, alt_ft),
               variable |-> TRUE]
         ELSE DecodeMatch(MatchFd(code), alt_ft)

_decode_fd(code, alt_ft) == DecodeStripped(strip(code), alt_ft)

(***************************************************************************)
(* src/winds_aloft.py: vector interpolation between two decoded samples.   *)
(* With ratio = num/den the interpolated wind vector is W/den, where       *)
(* W = a*e(d1) + b*e(d2), a = (den-num)*speed1, b = num*speed2 and e(d)    *)
(* the unit vector of compass direction d.  Sines are tabulated to five    *)
(* decimals at half-degree steps; a float result that the table cannot     *)
(* tell from a rounding boundary may fall on either side of it.            *)
(***************************************************************************)
(* sin(j/2 degrees) * 10^5 for j = 0..180 *)
SinHalf ==
    << 0, 873, 1745, 2618, 3490, 4362, 5234, 6105, 6976, 7846,
       8716, 9585, 10453, 11320, 12187, 13053, 13917, 14781, 15643, 16505,
       17365, 18224, 19081, 19937, 20791, 21644, 22495, 23345, 24192, 25038,
       25882, 26724, 27564, 28402, 29237, 30071, 30902, 31730, 32557, 33381,
       34202, 35021, 35837, 36650, 37461, 38268, 39073, 39875, 40674, 41469,
       42262, 43051, 43837, 44620, 45399, 46175, 46947, 47716, 48481, 49242,
       50000, 50754, 51504, 52250, 52992, 53730, 54464, 55194, 55919, 56641,
       57358, 58070, 58779, 59482, 60182, 60876, 61566, 62251, 62932, 63608,
       64279, 64945, 65606, 66262, 66913, 67559, 68200, 68835, 69466, 70091,
       70711, 71325, 71934, 72537, 73135, 73728, 74314, 74896, 75471, 76041,
       76604, 77162, 77715, 78261, 78801, 79335, 79864, 80386, 80902, 81412,
       81915, 82413, 82904, 83389, 83867, 84339, 84805, 85264, 85717, 86163,
       86603, 87036, 87462, 87882, 88295, 88701, 89101, 89493, 89879, 90259,
       90631, 90996, 91355, 91706, 92050, 92388, 92718, 93042, 93358, 93667,
       93969, 94264, 94552, 94832, 95106, 95372, 95630, 95882, 96126, 96363,
       96593, 96815, 97030, 97237, 97437, 97630, 97815, 97992, 98163, 98325,
       98481, 98629, 98769, 98902, 99027, 99144, 99255, 99357, 99452, 99540,
       99619, 99692, 99756, 99813, 99863, 99905, 99939, 99966, 99985, 99996,
       100000 >>

SinScale == 100000

(* sin and cos of h half-degrees, times SinScale *)
SinH(h) ==
    LET m == h % 720
    IN  IF m <= 180 THEN SinHalf[m + 1]
        ELSE IF m <= 360 THEN SinHalf[361 - m]
        ELSE IF m <= 540 THEN -SinHalf[m - 359]
        ELSE -SinHalf[721 - m]

CosH(h) == SinH(h + 180)

(* the component of W along compass direction h/2, and the component *)
(* across it (positive when W lies clockwise of h/2)                 *)
Along(a, d1, b, d2, h) == a * CosH(2 * d1 - h) + b * CosH(2 * d2 - h)

Across(a, d1, b, d2, h) == a * SinH(2 * d1 - h) + b * SinH(2 * d2 - h)

(* bound on the error of Along and Across due to the table *)
Tol(a, b) == a + b

(* round(math.degrees(math.atan2(-u, -v))) % 360: the whole degrees k    *)
(* with W within half a degree of k                                      *)
DirCandidates(a, d1, b, d2) ==
    {k \in 0..359 : /\ Along(a, d1, b, d2, 2 * k) > 0
                    /\ Across(a, d1, b, d2, 2 * k + 1) <= Tol(a, b)
                    /\ Across(a, d1, b, d2, 2 * k - 1) >= -Tol(a, b)}

(* round(math.sqrt(u*u + v*v)): the whole numbers n with |W|/den within  *)
(* one half of n, where lo <= |W| * SinScale <= up                       *)
SpeedRange(lo, up, den, maxN) ==
    {n \in 0..maxN : /\ (2 * n - 1) * SinScale * den <= 2 * up
                     /\ (2 * n + 1) * SinScale * den >= 2 * lo}

(* |W| = sqrt(P^2 + Q^2) lies between P + Q^2/(2P) - 1 and P + Q^2/(2P), *)
(* P and Q the components along and across a direction within half a     *)
(* degree of W; p and q are P and Q in thousands                         *)
SpeedFromComponents(P, Q, p, q, tol, den, maxN) ==
    IF p = 0 THEN SpeedRange(0, P + Q + tol + 2, den, maxN)
    ELSE SpeedRange(P + ((q * q * 500) \div (p + 1)) - tol - 2,
                    P + (((q + 1) * (q + 1) * 500) \div p) + tol + 3, den, maxN)

SpeedAlong(P, Q, tol, den, maxN) ==
    SpeedFromComponents(P, Q, P \div 1000, Q \div 1000, tol, den, maxN)

SpeedCandidates(a, d1, b, d2, den, k) ==
    SpeedAlong(Along(a, d1, b, d2, 2 * k), Abs(Across(a, d1, b, d2, 2 * k)),
               Tol(a, b), den, ((a + b) \div den) + 1)

(* spd and d of lines 117-118: d is 0 unless spd >= 1 *)
WindCandidates(a, d1, b, d2, den, dirs) ==
    IF dirs = {} THEN {[dir |-> 0, speed_kt |-> 0]}
    ELSE UNION {{[dir |-> IF n >= 1 THEN k ELSE 0, speed_kt |-> n] :
                    n \in SpeedCandidates(a, d1, b, d2, den, k)} : k \in dirs}

IsPowerOfTwo(n) == n \in {1, 2, 4, 8, 16, 32, 64}

(* the temperature of the lower sample, not interpolated *)
TempOfLowerSample(t1, t2, num, den) == {t1}

(* round(r1["temp_c"] + ratio * (r2["temp_c"] - r1["temp_c"])): exact    *)
(* when ratio is a binary fraction, otherwise a tie may round either way *)
TempCandidates(t1, t2, num, den) ==
    IF (2 * (t1 * den + num * (t2 - t1))) % (2 * den) = den /\ ~IsPowerOfTwo(den)
    THEN {(t1 * den + num * (t2 - t1) - (den \div 2)) \div den,
          ((t1 * den + num * (t2 - t1) - (den \div 2)) \div den) + 1}
    ELSE {RoundHalfEven(Rat(t1 * den + num * (t2 - t1), den))}

(* the dicts lines 121-126 can return for ratio = num/den in lowest terms *)
InterpolatedSamples(r1, r2, num, den) ==
    {[dir |-> w.dir, speed_kt |-> w.speed_kt, temp_c |-> t, variable |-> r1.variable] :
        w \in WindCandidates((den - num) * r1.speed_kt, r1.dir, num * r2.speed_kt, r2.dir, den,
                             DirCandidates((den - num) * r1.speed_kt, r1.dir,
                                           num * r2.speed_kt, r2.dir)),
        t \in TempCandidates(r1.temp_c, r2.temp_c, num, den)}

(* ratio = (alt_ft - lo_alt) / (hi_alt - lo_alt) in lowest terms *)
Interpolate(r1, r2, alt_ft, lo_alt, hi_alt) ==
    InterpolatedSamples(r1, r2, (alt_ft - lo_alt) \div GCD(alt_ft - lo_alt, hi_alt - lo_alt),
                        (hi_alt - lo_alt) \div GCD(alt_ft - lo_alt, hi_alt - lo_alt))

(***************************************************************************)
(* src/winds_aloft.py: the FD table parser.  The text is the sequence of   *)
(* its lines (text.splitlines()); the falsy texts, None and "", are the    *)
(* empty sequence.                                                         *)
(***************************************************************************)
(* the position of the first character at or after i that is not a space *)
RECURSIVE SkipSpaces(_, _)
SkipSpaces(s, i) == IF i <= Len(s) /\ Ch(s, i) = " " THEN SkipSpaces(s, i + 1) ELSE i

(* the number of consecutive digits from position i, counted up to max *)
RECURSIVE DigitRun(_, _, _)
DigitRun(s, i, max) ==
    IF max > 0 /\ i <= Len(s) /\ IsDigit(Ch(s, i)) THEN 1 + DigitRun(s, i + 1, max - 1) ELSE 0

(* re.match(r'^FT\s+\d{4,5}', line) *)
HeaderMatches(line) ==
    /\ SliceTo(line, 2) = "FT"
    /\ Ch(line, 3) = " "
    /\ DigitRun(line, SkipSpaces(line, 3), 4) = 4

(* [int(x) for x in re.findall(r'\d{4,5}', line)], scanning from position i *)
RECURSIVE FindAltitudes(_, _)
FindAltitudes(line, i) ==
    IF i > Len(line) THEN <<>>
    ELSE IF DigitRun(line, i, 5) >= 4
         THEN <<DecimalValue(SubSeq(line, i, i + DigitRun(line, i, 5) - 1))>>
                  \o FindAltitudes(line, i + DigitRun(line, i, 5))
         ELSE FindAltitudes(line, i + 1)

(* the index (from 0) of the first header line at or after i, -1 for the *)
(* initial header_idx = None                                             *)
RECURSIVE HeaderIdx(_, _)
HeaderIdx(lines, i) ==
    IF i >= Len(lines) THEN -1
    ELSE IF HeaderMatches(lines[i + 1]) THEN i
    ELSE HeaderIdx(lines, i + 1)

(* "not header_idx": header_idx is None or 0 *)
NotHeaderIdx(header_idx) == header_idx = -1 \/ header_idx = 0

(* str.split() *)
RECURSIVE SplitRest(_, _, _)
SplitRest(s, cur, acc) ==
    IF s = "" THEN (IF cur = "" THEN acc ELSE Append(acc, cur))
    ELSE IF Ch(s, 1) = " "
         THEN SplitRest(Tail(s), "", IF cur = "" THEN acc ELSE Append(acc, cur))
         ELSE SplitRest(Tail(s), cur \o Ch(s, 1), acc)

split(s) == SplitRest(s, "", <<>>)

(* str.upper() *)
LowerCase == "abcdefghijklmnopqrstuvwxyz"

UpperCase == "ABCDEFGHIJKLMNOPQRSTUVWXYZ"

UpperCh(c) ==
    IF \E i \in 1..26 : Ch(LowerCase, i) = c
    THEN Ch(UpperCase, CHOOSE i \in 1..26 : Ch(LowerCase, i) = c)
    ELSE c

RECURSIVE upper(_)
upper(s) == IF s = "" THEN s ELSE UpperCh(Ch(s, 1)) \o upper(Tail(s))

(* sid3: a 4-letter ICAO id starting with K, C, M or P loses its first letter *)
Sid3(sid) == IF Len(sid) = 4 /\ Ch(sid, 1) \in {"K", "C", "M", "P"} THEN Tail(sid) ELSE sid

(* the parts of the first line after index i whose first part is the     *)
(* station, <<>> when there is none                                      *)
RECURSIVE StationRow(_, _, _)
StationRow(lines, i, sid) ==
    IF i >= Len(lines) THEN <<>>
    ELSE IF strip(lines[i + 1]) # "" /\ split(lines[i + 1]) # <<>>
              /\ upper(split(lines[i + 1])[1]) \in {sid, Sid3(sid)}
         THEN split(lines[i + 1])
         ELSE StationRow(lines, i + 1, sid)

CellPresentAlways(col_idx, parts) == TRUE

(* if col_idx + 1 < len(parts) *)
CellPresent(col_idx, parts) == col_idx + 1 < Len(parts)

(* the columns (from 0) whose cell is read, and those whose cell decodes *)
ReadColumns(parts, header_alts) ==
    {c \in 0..(Len(header_alts) - 1) : CellPresent(c, parts)}

DecodedColumns(parts, header_alts) ==
    {c \in ReadColumns(parts, header_alts) : _decode_fd(parts[c + 2], header_alts[c + 1]) # None}

Max(S) == CHOOSE x \in S : \A y \in S : y <= x

Min(S) == CHOOSE x \in S : \A y \in S : x <= y

(* station_data after the row's loop: each altitude keeps the sample of  *)
(* the last column that decoded for it; parts[col_idx + 1] beyond the    *)
(* row's end raises IndexError                                           *)
StationData(parts, header_alts) ==
    IF \E c \in ReadColumns(parts, header_alts) : c + 2 > Len(parts)
    THEN Raise("IndexError")
    ELSE [tag  |-> "dict",
          data |-> [alt \in {header_alts[c + 1] : c \in DecodedColumns(parts, header_alts)} |->
                       _decode_fd(parts[Max({c \in DecodedColumns(parts, header_alts) :
                                                header_alts[c + 1] = alt}) + 2], alt)]]

(* lines 95-126 on a non-empty station_data *)
ResolveBetween(station_data, alt_ft, lo_alt, hi_alt) ==
    IF lo_alt = hi_alt THEN {station_data[lo_alt]}
    ELSE Interpolate(station_data[lo_alt], station_data[hi_alt], alt_ft, lo_alt, hi_alt)

Resolve(station_data, alt_ft) ==
    IF alt_ft <= Min(DOMAIN station_data) THEN {station_data[Min(DOMAIN station_data)]}
    ELSE IF alt_ft >= Max(DOMAIN station_data) THEN {station_data[Max(DOMAIN station_data)]}
    ELSE ResolveBetween(station_data, alt_ft,
                        Max({a \in DOMAIN station_data : a <= alt_ft}),
                        Min({a \in DOMAIN station_data : a >= alt_ft}))

ResolveStation(station, alt_ft) ==
    IF station.tag = "raise" THEN {station}
    ELSE IF DOMAIN station.data = {} THEN {None}
    ELSE Resolve(station.data, alt_ft)

ParseRow(parts, header_alts, alt_ft) ==
    IF parts = <<>> THEN {None}
    ELSE ResolveStation(StationData(parts, header_alts), alt_ft)

ParseFrom(lines, header_idx, station_id, alt_ft) ==
    IF NotHeaderIdx(header_idx) \/ FindAltitudes(lines[header_idx + 1], 1) = <<>> THEN {None}
    ELSE ParseRow(StationRow(lines, header_idx + 1, upper(station_id)),
                  FindAltitudes(lines[header_idx + 1], 1), alt_ft)

(* the set of values _parse_fd_table(text, station_id, alt_ft) can return *)
_parse_fd_table(text, station_id, alt_ft) ==
    IF text = <<>> THEN {None}
    ELSE ParseFrom(text, HeaderIdx(text, 0), station_id, alt_ft)

(***************************************************************************)
(* src/winds_aloft.py: wind adjustment of a fuel plan                      *)
(***************************************************************************)
(* |cos(a)| for a = 0..359 degrees to nine decimals, as CosHi * 10^5 + CosLo *)
CosHi ==
    << 10000, 9998, 9993, 9986, 9975, 9961, 9945, 9925, 9902, 9876,
       9848, 9816, 9781, 9743, 9702, 9659, 9612, 9563, 9510, 9455,
       9396, 9335, 9271, 9205, 9135, 9063, 8987, 8910, 8829, 8746,
       8660, 8571, 8480, 8386, 8290, 8191, 8090, 7986, 7880, 7771,
       7660, 7547, 7431, 7313, 7193, 7071, 6946, 6819, 6691, 6560,
       6427, 6293, 6156, 6018, 5877, 5735, 5591, 5446, 5299, 5150,
       5000, 4848, 4694, 4539, 4383, 4226, 4067, 3907, 3746, 3583,
       3420, 3255, 3090, 2923, 2756, 2588, 2419, 2249, 2079, 1908,
       1736, 1564, 1391, 1218, 1045, 871, 697, 523, 348, 174,
       0, 174, 348, 523, 697, 871, 1045, 1218, 1391, 1564,
       1736, 1908, 2079, 2249, 2419, 2588, 2756, 2923, 3090, 3255,
       3420, 3583, 3746, 3907, 4067, 4226, 4383, 4539, 4694, 4848,
       5000, 5150, 5299, 5446, 5591, 5735, 5877, 6018, 6156, 6293,
       6427, 6560, 6691, 6819, 6946, 7071, 7193, 7313, 7431, 7547,
       7660, 7771, 7880, 7986, 8090, 8191, 8290, 8386, 8480, 8571,
       8660, 8746, 8829, 8910, 8987, 9063, 9135, 9205, 9271, 9335,
       9396, 9455, 9510, 9563, 9612, 9659, 9702, 9743, 9781, 9816,
       9848, 9876, 9902, 9925, 9945, 9961, 9975, 9986, 9993, 9998,
       10000, 9998, 9993, 9986, 9975, 9961, 9945, 9925, 9902, 9876,
       9848, 9816, 9781, 9743, 9702, 9659, 9612, 9563, 9510, 9455,
       9396, 9335, 9271, 9205, 9135, 9063, 8987, 8910, 8829, 8746,
       8660, 8571, 8480, 8386, 8290, 8191, 8090, 7986, 7880, 7771,
       7660, 7547, 7431, 7313, 7193, 7071, 6946, 6819, 6691, 6560,
       6427, 6293, 6156, 6018, 5877, 5735, 5591, 5446, 5299, 5150,
       5000, 4848, 4694, 4539, 4383, 4226, 4067, 3907, 3746, 3583,
       3420, 3255, 3090, 2923, 2756, 2588, 2419, 2249, 2079, 1908,
       1736, 1564, 1391, 1218, 1045, 871, 697, 523, 348, 174,
       0, 174, 348, 523, 697, 871, 1045, 1218, 1391, 1564,
       1736, 1908, 2079, 2249, 2419, 2588, 2756, 2923, 3090, 3255,
       3420, 3583, 3746, 3907, 4067, 4226, 4383, 4539, 4694, 4848,
       5000, 5150, 5299, 5446, 5591, 5735, 5877, 6018, 6156, 6293,
       6427, 6560, 6691, 6819, 6946, 7071, 7193, 7313, 7431, 7547,
       7660, 7771, 7880, 7986, 8090, 8191, 8290, 8386, 8480, 8571,
       8660, 8746, 8829, 8910, 8987, 9063, 9135, 9205, 9271, 9335,
       9396, 9455, 9510, 9563, 9612, 9659, 9702, 9743, 9781, 9816,
       9848, 9876, 9902, 9925, 9945, 9961, 9975, 9986, 9993, 9998 >>

CosLo ==
    << 0, 47695, 90827, 29535, 64050, 94698, 21895, 46152, 68069, 88341,
       7753, 27183, 47601, 70065, 95726, 25826, 61696, 4756, 56516, 18576,
       92621, 80426, 83855, 4853, 45458, 7787, 94046, 6524, 47593, 19707,
       25404, 67301, 48096, 70568, 37573, 52044, 16994, 35510, 10754, 45961,
       44443, 9580, 44825, 53702, 39800, 6781, 58370, 98360, 30606, 59029,
       87610, 20391, 61475, 15023, 85252, 76436, 92903, 39035, 19264, 38075,
       0, 9620, 71563, 90500, 71147, 18262, 36643, 31128, 6593, 67950,
       20143, 68154, 16994, 71705, 37356, 19045, 21896, 51054, 11691, 8995,
       48178, 34465, 73101, 69343, 28463, 55743, 56474, 35956, 99497, 52406,
       0, 52406, 99497, 35956, 56474, 55743, 28463, 69343, 73101, 34465,
       48178, 8995, 11691, 51054, 21896, 19045, 37356, 71705, 16994, 68154,
       20143, 67950, 6593, 31128, 36643, 18262, 71147, 90500, 71563, 9620,
       0, 38075, 19264, 39035, 92903, 76436, 85252, 15023, 61475, 20391,
       87610, 59029, 30606, 98360, 58370, 6781, 39800, 53702, 44825, 9580,
       44443, 45961, 10754, 35510, 16994, 52044, 37573, 70568, 48096, 67301,
       25404, 19707, 47593, 6524, 94046, 7787, 45458, 4853, 83855, 80426,
       92621, 18576, 56516, 4756, 61696, 25826, 95726, 70065, 47601, 27183,
       7753, 88341, 68069, 46152, 21895, 94698, 64050, 29535, 90827, 47695,
       0, 47695, 90827, 29535, 64050, 94698, 21895, 46152, 68069, 88341,
       7753, 27183, 47601, 70065, 95726, 25826, 61696, 4756, 56516, 18576,
       92621, 80426, 83855, 4853, 45458, 7787, 94046, 6524, 47593, 19707,
       25404, 67301, 48096, 70568, 37573, 52044, 16994, 35510, 10754, 45961,
       44443, 9580, 44825, 53702, 39800, 6781, 58370, 98360, 30606, 59029,
       87610, 20391, 61475, 15023, 85252, 76436, 92903, 39035, 19264, 38075,
       0, 9620, 71563, 90500, 71147, 18262, 36643, 31128, 6593, 67950,
       20143, 68154, 16994, 71705, 37356, 19045, 21896, 51054, 11691, 8995,
       48178, 34465, 73101, 69343, 28463, 55743, 56474, 35956, 99497, 52406,
       0, 52406, 99497, 35956, 56474, 55743, 28463, 69343, 73101, 34465,
       48178, 8995, 11691, 51054, 21896, 19045, 37356, 71705, 16994, 68154,
       20143, 67950, 6593, 31128, 36643, 18262, 71147, 90500, 71563, 9620,
       0, 38075, 19264, 39035, 92903, 76436, 85252, 15023, 61475, 20391,
       87610, 59029, 30606, 98360, 58370, 6781, 39800, 53702, 44825, 9580,
       44443, 45961, 10754, 35510, 16994, 52044, 37573, 70568, 48096, 67301,
       25404, 19707, 47593, 6524, 94046, 7787, 45458, 4853, 83855, 80426,
       92621, 18576, 56516, 4756, 61696, 25826, 95726, 70065, 47601, 27183,
       7753, 88341, 68069, 46152, 21895, 94698, 64050, 29535, 90827, 47695 >>

CosSignReversed(a) == IF 90 < a /\ a < 270 THEN 1 ELSE -1

CosSign(a) == IF 90 < a /\ a < 270 THEN -1 ELSE 1

(* round(wind_speed * cos(radians(wind_dir - course_deg)), 1), in tenths *)
HeadwindTenths(wind_dir, wind_speed, course_deg) ==
    LET a == (wind_dir - course_deg) % 360
        x == wind_speed * CosHi[a + 1] + ((wind_speed * CosLo[a + 1]) \div 100000)
        f == (wind_speed * CosLo[a + 1]) % 100000
        q == x \div 1000
        r == x % 1000
    IN  CosSign(a) * (IF r > 500 \/ (r = 500 /\ (f > 0 \/ q % 2 = 1)) THEN q + 1 ELSE q)

headwind_component(wind_dir, wind_speed, course_deg) ==
    Tenths(HeadwindTenths(wind_dir, wind_speed, course_deg))

groundspeed_unclamped(tas_kt, wind_dir, wind_speed, course_deg) ==
    RSub(RInt(tas_kt), headwind_component(wind_dir, wind_speed, course_deg))

wind_corrected_groundspeed(tas_kt, wind_dir, wind_speed, course_deg) ==
    LET hw == headwind_component(wind_dir, wind_speed, course_deg)
    IN  RMax(RInt(1), RSub(RInt(tas_kt), hw))

WindSkippedAbsentOnly(wind) == Falsy(wind)

(* "not wind or wind.get('variable')" *)
WindSkipped(wind) == Falsy(wind) \/ Get(wind, "variable", FALSE)

(* the fields written when the wind is absent or variable *)
NeutralWindFields(fp2, wind) ==
    [wind_dir      |-> 0,
     wind_speed    |-> 0,
     wind_hw       |-> RZero,
     wind_gs       |-> fp2.cruise_ktas,
     wind_adjusted |-> FALSE,
     wind_station  |-> IF Falsy(wind) THEN "N/A" ELSE Get(wind, "station", "N/A")]

(* the fields written by the final fp2.update(..) *)
AdjustedFields(fp2, wind, hw, gs, new_cruise_time, new_cruise_fuel, trip_fuel, contingency, block_fuel) ==
    [cruise_time_hr |-> new_cruise_time,
     cruise_fuel    |-> new_cruise_fuel,
     trip_fuel      |-> trip_fuel,
     contingency    |-> contingency,
     block_fuel     |-> block_fuel,
     total_time_hr  |-> RAdd(RAdd(fp2.climb_time_hr, new_cruise_time), fp2.descent_time_hr),
     fuel_ok        |-> RLe(block_fuel, fp2.usable_capacity),
     wind_dir       |-> wind.dir,
     wind_speed     |-> wind.speed_kt,
     wind_temp_c    |-> Get(wind, "temp_c", 0),
     wind_hw        |-> hw,
     wind_gs        |-> RoundHalfEven(gs),
     wind_station   |-> Get(wind, "station", "?"),
     wind_adjusted  |-> TRUE]

(* block_fuel = fp2["taxi_fuel"] + trip_fuel + contingency + fp2["reserve"] *)
AdjustWithContingency(fp2, wind, hw, gs, new_cruise_time, new_cruise_fuel, trip_fuel, contingency) ==
    AdjustedFields(fp2, wind, hw, gs, new_cruise_time, new_cruise_fuel, trip_fuel,
                   contingency,
                   RAdd(RAdd(RAdd(fp2.taxi_fuel, trip_fuel), contingency), fp2.reserve))

ContingencyStale(trip_fuel, fp2) == fp2.contingency

(* contingency = trip_fuel * (fp2["poh"]["contingency_pct"] / 100) *)
Contingency(trip_fuel, fp2) == RMul(trip_fuel, Rat(fp2.poh.contingency_pct, 100))

AdjustWithTrip(fp2, wind, hw, gs, new_cruise_time, new_cruise_fuel, trip_fuel) ==
    AdjustWithContingency(fp2, wind, hw, gs, new_cruise_time, new_cruise_fuel, trip_fuel,
                          Contingency(trip_fuel, fp2))

(* trip_fuel = fp2["climb_fuel"] + new_cruise_fuel + fp2["descent_fuel"] *)
AdjustWithCruiseFuel(fp2, wind, hw, gs, new_cruise_time, new_cruise_fuel) ==
    AdjustWithTrip(fp2, wind, hw, gs, new_cruise_time, new_cruise_fuel,
                   RAdd(RAdd(fp2.climb_fuel, new_cruise_fuel), fp2.descent_fuel))

(* new_cruise_fuel = burn * new_cruise_time *)
AdjustWithCruiseTime(fp2, wind, hw, gs, new_cruise_time) ==
    AdjustWithCruiseFuel(fp2, wind, hw, gs, new_cruise_time,
                         RMul(fp2.cruise_burn_rate, new_cruise_time))

(* new_cruise_time = cruise_dist_nm / gs if gs > 0 else cruise_time_hr *)
AdjustWithGs(fp2, wind, hw, gs) ==
    AdjustWithCruiseTime(fp2, wind, hw, gs,
                         IF RLt(RZero, gs) THEN RDiv(fp2.cruise_dist_nm, gs)
                         ELSE fp2.cruise_time_hr)

(* the dict passed to fp2.update(..) on either path *)
WindUpdate(fp2, wind, course_deg) ==
    IF WindSkipped(wind) THEN NeutralWindFields(fp2, wind)
    ELSE AdjustWithGs(fp2, wind,
                      headwind_component(wind.dir, wind.speed_kt, course_deg),
                      wind_corrected_groundspeed(fp2.cruise_ktas, wind.dir,
                                                 wind.speed_kt, course_deg))

(* Plan objects live in a heap keyed by object id.  copy.deepcopy(fp)     *)
(* returns the id of a fresh object holding the same fields.               *)
no_copy(fp_id) == fp_id

deepcopy(fp_id) == fp_id + 1

(* the heap after fp2.update(upd), fp2 being object id2 and the caller's   *)
(* plan object 1: ret is the returned object, base the caller's            *)
UpdateObject(fp, id2, upd) ==
    [base |-> IF id2 = 1 THEN upd @@ fp ELSE fp,
     ret  |-> upd @@ fp]

adjust_fuel_plan_for_wind(fp, wind, course_deg) ==
    UpdateObject(fp, deepcopy(1), WindUpdate(fp, wind, course_deg))

(***************************************************************************)
(* src/winds_aloft.py: winds along a route.  Latitudes and longitudes are  *)
(* in units of 1/400 degree, which holds every two-decimal coordinate and  *)
(* every midpoint of two of them exactly.                                  *)
(***************************************************************************)
_pick_level(cruise_fl) == IF cruise_fl * 100 > 24000 THEN "high" ELSE "low"

(* text.splitlines() joined again: len(r.text) *)
RECURSIVE TextLen(_)
TextLen(lines) ==
    IF lines = <<>> THEN 0
    ELSE IF Len(lines) = 1 THEN Len(lines[1])
    ELSE Len(Head(lines)) + 1 + TextLen(Tail(lines))

Str(lines) == [tag |-> "str", lines |-> lines]

(* the body of _fetch_windtemp_text(level) on the outcome of requests.get: *)
(* a response, or an exception                                             *)
_fetch_windtemp_text(response) ==
    IF response.tag = "raise" THEN None
    ELSE IF response.status_code = 200 /\ TextLen(response.text) > 200 THEN Str(response.text)
    ELSE None

(* @lru_cache(maxsize=4): the entries [key, value], least recently used    *)
(* first.  The wrapper holds no lock while the wrapped function runs.      *)
maxsize == 4

CachedKeys(c) == {c[k].key : k \in DOMAIN c}

CacheIndex(c, key) == CHOOSE k \in DOMAIN c : c[k].key = key

CacheValue(c, key) == c[CacheIndex(c, key)].value

Without(c, key) == SelectSeq(c, LAMBDA e : e.key # key)

(* a hit moves the entry to the most recently used end *)
CacheHit(c, key) == Append(Without(c, key), c[CacheIndex(c, key)])

(* a cache that keeps texts only *)
CacheStoreUnlessNone(c, key, value) ==
    IF key \in CachedKeys(c) \/ value = None THEN c
    ELSE IF Len(c) >= maxsize THEN Append(Tail(c), [key |-> key, value |-> value])
    ELSE Append(c, [key |-> key, value |-> value])

(* a computed result is stored unless the key was added meanwhile; a full  *)
(* cache drops its least recently used entry                               *)
CacheStore(c, key, value) ==
    IF key \in CachedKeys(c) THEN c
    ELSE IF Len(c) >= maxsize THEN Append(Tail(c), [key |-> key, value |-> value])
    ELSE Append(c, [key |-> key, value |-> value])

(* _FD_STATIONS, in dict order *)
_FD_STATIONS ==
    << [id |-> "ABI", lat |-> 12964, lon |-> -39872], [id |-> "ABQ", lat |-> 14016, lon |-> -42648],
       [id |-> "ABR", lat |-> 18180, lon |-> -39368], [id |-> "ACK", lat |-> 16500, lon |-> -28024],
       [id |-> "ACY", lat |-> 15784, lon |-> -29828], [id |-> "AGC", lat |-> 16140, lon |-> -31972],
       [id |-> "ALB", lat |-> 17100, lon |-> -29520], [id |-> "ALS", lat |-> 14972, lon |-> -42348],
       [id |-> "AMA", lat |-> 14088, lon |-> -40684], [id |-> "AST", lat |-> 18464, lon |-> -49552],
       [id |-> "ATL", lat |-> 13456, lon |-> -33772], [id |-> "AVP", lat |-> 16532, lon |-> -30292],
       [id |-> "AXN", lat |-> 18348, lon |-> -38156], [id |-> "BAM", lat |-> 16240, lon |-> -46748],
       [id |-> "BAX", lat |-> 17772, lon |-> -33888], [id |-> "BCE", lat |-> 15080, lon |-> -44860],
       [id |-> "BDL", lat |-> 16776, lon |-> -29072], [id |-> "BFF", lat |-> 16748, lon |-> -41440],
       [id |-> "BGR", lat |-> 17924, lon |-> -27532], [id |-> "BHM", lat |-> 13424, lon |-> -34700],
       [id |-> "BIH", lat |-> 14948, lon |-> -47344], [id |-> "BIL", lat |-> 18324, lon |-> -43416],
       [id |-> "BLH", lat |-> 13448, lon |-> -45888], [id |-> "BNA", lat |-> 14448, lon |-> -34672],
       [id |-> "BOI", lat |-> 17424, lon |-> -46488], [id |-> "BOS", lat |-> 16944, lon |-> -28404],
       [id |-> "BRL", lat |-> 16312, lon |-> -36448], [id |-> "BTR", lat |-> 12212, lon |-> -36460],
       [id |-> "BUF", lat |-> 17172, lon |-> -31492], [id |-> "BYI", lat |-> 17016, lon |-> -45508],
       [id |-> "CAR", lat |-> 18748, lon |-> -27208], [id |-> "CBE", lat |-> 15764, lon |-> -31504],
       [id |-> "CEZ", lat |-> 14920, lon |-> -43452], [id |-> "CHS", lat |-> 13160, lon |-> -32016],
       [id |-> "CLE", lat |-> 16564, lon |-> -32740], [id |-> "CLT", lat |-> 14084, lon |-> -32376],
       [id |-> "CMH", lat |-> 15996, lon |-> -33156], [id |-> "CNY", lat |-> 15500, lon |-> -43900],
       [id |-> "COD", lat |-> 17808, lon |-> -41664], [id |-> "CON", lat |-> 17280, lon |-> -28600],
       [id |-> "COU", lat |-> 15528, lon |-> -36888], [id |-> "CRP", lat |-> 11108, lon |-> -39004],
       [id |-> "CVG", lat |-> 15620, lon |-> -33868], [id |-> "CYS", lat |-> 16460, lon |-> -41924],
       [id |-> "DAB", lat |-> 11672, lon |-> -32420], [id |-> "DAL", lat |-> 13140, lon |-> -38740],
       [id |-> "DEN", lat |-> 15940, lon |-> -41864], [id |-> "DFW", lat |-> 13160, lon |-> -38816],
       [id |-> "DLH", lat |-> 18736, lon |-> -36876], [id |-> "DRT", lat |-> 11748, lon |-> -40368],
       [id |-> "DSM", lat |-> 16612, lon |-> -37464], [id |-> "DTW", lat |-> 16884, lon |-> -33340],
       [id |-> "EKO", lat |-> 16328, lon |-> -46316], [id |-> "ELP", lat |-> 12724, lon |-> -42552],
       [id |-> "EVV", lat |-> 15216, lon |-> -35012], [id |-> "EWR", lat |-> 16276, lon |-> -29668],
       [id |-> "FAI", lat |-> 25924, lon |-> -59144], [id |-> "FAR", lat |-> 18768, lon |-> -38724],
       [id |-> "FAT", lat |-> 14712, lon |-> -47888], [id |-> "FCA", lat |-> 19324, lon |-> -45704],
       [id |-> "FLG", lat |-> 14052, lon |-> -44668], [id |-> "FLL", lat |-> 10428, lon |-> -32060],
       [id |-> "FMN", lat |-> 14696, lon |-> -43292], [id |-> "FSD", lat |-> 17432, lon |-> -38696],
       [id |-> "FSM", lat |-> 14136, lon |-> -37748], [id |-> "GAG", lat |-> 14520, lon |-> -39912],
       [id |-> "GEG", lat |-> 19048, lon |-> -47012], [id |-> "GGG", lat |-> 12952, lon |-> -37884],
       [id |-> "GJT", lat |-> 15648, lon |-> -43412], [id |-> "GLD", lat |-> 15748, lon |-> -40680],
       [id |-> "GRB", lat |-> 17792, lon |-> -35252], [id |-> "GRR", lat |-> 17152, lon |-> -34208],
       [id |-> "GSO", lat |-> 14440, lon |-> -31976], [id |-> "GSP", lat |-> 13960, lon |-> -32888],
       [id |-> "GTF", lat |-> 18992, lon |-> -44548], [id |-> "HLN", lat |-> 18644, lon |-> -44792],
       [id |-> "HOU", lat |-> 11860, lon |-> -38112], [id |-> "HTS", lat |-> 15348, lon |-> -33024],
       [id |-> "HUF", lat |-> 15780, lon |-> -34924], [id |-> "HYS", lat |-> 15540, lon |-> -39708],
       [id |-> "IAD", lat |-> 15576, lon |-> -30984], [id |-> "ICT", lat |-> 15060, lon |-> -38972],
       [id |-> "ILM", lat |-> 13708, lon |-> -31160], [id |-> "IND", lat |-> 15884, lon |-> -34516],
       [id |-> "INL", lat |-> 19428, lon |-> -37360], [id |-> "JAC", lat |-> 17440, lon |-> -44296],
       [id |-> "JAN", lat |-> 12924, lon |-> -36028], [id |-> "JAX", lat |-> 12196, lon |-> -32676],
       [id |-> "JFK", lat |-> 16252, lon |-> -29512], [id |-> "JNU", lat |-> 23344, lon |-> -53832],
       [id |-> "LAX", lat |-> 13576, lon |-> -47364], [id |-> "LAS", lat |-> 14432, lon |-> -46060],
       [id |-> "LBB", lat |-> 13464, lon |-> -40728], [id |-> "LCH", lat |-> 12048, lon |-> -37288],
       [id |-> "LIT", lat |-> 13892, lon |-> -36888], [id |-> "LKV", lat |-> 16864, lon |-> -48160],
       [id |-> "LNK", lat |-> 16340, lon |-> -38704], [id |-> "LRD", lat |-> 11016, lon |-> -39784],
       [id |-> "LSE", lat |-> 17552, lon |-> -36504], [id |-> "MAF", lat |-> 12780, lon |-> -40884],
       [id |-> "MCI", lat |-> 15716, lon |-> -37884], [id |-> "MCO", lat |-> 11372, lon |-> -32524],
       [id |-> "MDT", lat |-> 16076, lon |-> -30704], [id |-> "MEM", lat |-> 14016, lon |-> -35992],
       [id |-> "MFR", lat |-> 16948, lon |-> -49148], [id |-> "MGM", lat |-> 12920, lon |-> -34556],
       [id |-> "MIA", lat |-> 10316, lon |-> -32116], [id |-> "MKE", lat |-> 17180, lon |-> -35160],
       [id |-> "MLB", lat |-> 11240, lon |-> -32256], [id |-> "MOB", lat |-> 12276, lon |-> -35296],
       [id |-> "MSN", lat |-> 17256, lon |-> -35736], [id |-> "MSO", lat |-> 18768, lon |-> -45636],
       [id |-> "MSP", lat |-> 17952, lon |-> -37288], [id |-> "MSY", lat |-> 11996, lon |-> -36104],
       [id |-> "MTO", lat |-> 15792, lon |-> -35308], [id |-> "OAK", lat |-> 15088, lon |-> -48888],
       [id |-> "OKC", lat |-> 14156, lon |-> -39040], [id |-> "OMA", lat |-> 16520, lon |-> -38360],
       [id |-> "ONP", lat |-> 17832, lon |-> -49624], [id |-> "ORD", lat |-> 16788, lon |-> -35164],
       [id |-> "OTH", lat |-> 17368, lon |-> -49700], [id |-> "PDX", lat |-> 18236, lon |-> -49040],
       [id |-> "PHL", lat |-> 15948, lon |-> -30096], [id |-> "PHX", lat |-> 13376, lon |-> -44804],
       [id |-> "PIH", lat |-> 17164, lon |-> -45040], [id |-> "PIT", lat |-> 16196, lon |-> -32092],
       [id |-> "PNS", lat |-> 12188, lon |-> -34876], [id |-> "PRC", lat |-> 13860, lon |-> -44968],
       [id |-> "PSC", lat |-> 18504, lon |-> -47648], [id |-> "PUB", lat |-> 15316, lon |-> -41800],
       [id |-> "PVD", lat |-> 16688, lon |-> -28572], [id |-> "RAP", lat |-> 17588, lon |-> -41224],
       [id |-> "RDD", lat |-> 16204, lon |-> -48916], [id |-> "RDU", lat |-> 14348, lon |-> -31516],
       [id |-> "RIC", lat |-> 15000, lon |-> -30928], [id |-> "RNO", lat |-> 15800, lon |-> -47912],
       [id |-> "ROA", lat |-> 14928, lon |-> -31988], [id |-> "ROW", lat |-> 13320, lon |-> -41812],
       [id |-> "SAL", lat |-> 15536, lon |-> -39060], [id |-> "SAN", lat |-> 13092, lon |-> -46876],
       [id |-> "SAT", lat |-> 11812, lon |-> -39388], [id |-> "SAV", lat |-> 12852, lon |-> -32480],
       [id |-> "SBA", lat |-> 13772, lon |-> -47936], [id |-> "SBN", lat |-> 16684, lon |-> -34528],
       [id |-> "SEA", lat |-> 18980, lon |-> -48924], [id |-> "SFO", lat |-> 15048, lon |-> -48952],
       [id |-> "SGF", lat |-> 14896, lon |-> -37356], [id |-> "SHV", lat |-> 12980, lon |-> -37532],
       [id |-> "SLC", lat |-> 16312, lon |-> -44788], [id |-> "SPS", lat |-> 13596, lon |-> -39396],
       [id |-> "STL", lat |-> 15500, lon |-> -36148], [id |-> "TLH", lat |-> 12160, lon |-> -33740],
       [id |-> "TPA", lat |-> 11188, lon |-> -33012], [id |-> "TUL", lat |-> 14480, lon |-> -38356],
       [id |-> "TUS", lat |-> 12848, lon |-> -44376], [id |-> "TWF", lat |-> 16992, lon |-> -45792],
       [id |-> "VCT", lat |-> 11540, lon |-> -38772], [id |-> "XMR", lat |-> 11388, lon |-> -32228],
       [id |-> "YKM", lat |-> 18628, lon |-> -48216], [id |-> "ANC", lat |-> 24468, lon |-> -60008],
       [id |-> "BET", lat |-> 24312, lon |-> -64736], [id |-> "CDV", lat |-> 24196, lon |-> -58192],
       [id |-> "OME", lat |-> 25804, lon |-> -66176], [id |-> "SNP", lat |-> 22868, lon |-> -68088],
       [id |-> "YAK", lat |-> 23804, lon |-> -55864] >>

(* math.hypot(lat - slat, lon - slon), squared: the order is the same *)
_dist(lat, lon, s) == (lat - s.lat) * (lat - s.lat) + (lon - s.lon) * (lon - s.lon)

(* sorted(..., key=_dist) is stable: equal distances keep the dict order *)
RECURSIVE SortedByDist(_, _, _)
SortedByDist(d, remaining, n) ==
    IF n = 0 \/ remaining = {} THEN <<>>
    ELSE LET first == CHOOSE i \in remaining :
                          \A j \in remaining : d[i] < d[j] \/ (d[i] = d[j] /\ i <= j)
         IN  <<_FD_STATIONS[first].id>> \o SortedByDist(d, remaining \ {first}, n - 1)

_nearest_fd_stations(lat, lon, n) ==
    SortedByDist([i \in DOMAIN _FD_STATIONS |-> _dist(lat, lon, _FD_STATIONS[i])],
                 DOMAIN _FD_STATIONS, n)

(* result["station"] = sid *)
WithStation(result, sid) ==
    [dir |-> result.dir, speed_kt |-> result.speed_kt, temp_c |-> result.temp_c,
     variable |-> result.variable, station |-> sid]

(* the loop over the nearest stations: the first result that is not None *)
RECURSIVE FirstResult(_, _, _)
FirstResult(lines, sids, alt_ft) ==
    IF sids = <<>> THEN {None}
    ELSE {WithStation(r, Head(sids)) : r \in _parse_fd_table(lines, Head(sids), alt_ft) \ {None}}
         \cup (IF None \in _parse_fd_table(lines, Head(sids), alt_ft)
               THEN FirstResult(lines, Tail(sids), alt_ft)
               ELSE {})

(* get_winds_at_point(lat, lon, cruise_fl) from the text that               *)
(* _fetch_windtemp_text(level) returned on: the values it can return       *)
get_winds_at_point(text, lat, lon, cruise_fl) ==
    IF text = None THEN {None}
    ELSE FirstResult(text.lines, _nearest_fd_stations(lat, lon, 8), cruise_fl * 100)

(* float(d.get(k1) or d.get(k2) or 0) *)
Coordinate(d, k1, k2) ==
    IF Get(d, k1, 0) # 0 THEN d[k1] ELSE Get(d, k2, 0)

(* dep.get("ident") or dep.get("icao_code", default) *)
Ident(d, default) ==
    IF Get(d, "ident", "") # "" THEN d.ident ELSE Get(d, "icao_code", default)

EndPoint(d, default) ==
    [ident |-> Ident(d, default),
     lat   |-> Coordinate(d, "latitude_deg", "lat"),
     lon   |-> Coordinate(d, "longitude_deg", "lon")]

(* f"WP{i+1}" *)
WpName(i) == "WP" \o ToString(i + 1)

(* the waypoints range(i, len(waypoints), step) that have both coordinates *)
RECURSIVE SampledWaypoints(_, _, _)
SampledWaypoints(waypoints, i, step) ==
    IF i >= Len(waypoints) THEN <<>>
    ELSE (IF Coordinate(waypoints[i + 1], "lat", "latitude_deg") # 0
             /\ Coordinate(waypoints[i + 1], "lon", "longitude_deg") # 0
          THEN << [ident |-> Get(waypoints[i + 1], "ident", WpName(i)),
                   lat   |-> Coordinate(waypoints[i + 1], "lat", "latitude_deg"),
                   lon   |-> Coordinate(waypoints[i + 1], "lon", "longitude_deg")] >>
          ELSE <<>>)
         \o SampledWaypoints(waypoints, i + step, step)

MidPoint(dep, arr) ==
    [ident |-> "MID",
     lat   |-> (EndPoint(dep, "DEP").lat + EndPoint(arr, "ARR").lat) \div 2,
     lon   |-> (EndPoint(dep, "DEP").lon + EndPoint(arr, "ARR").lon) \div 2]

(* the list points of fetch_route_winds *)
RoutePoints(dep, arr, waypoints) ==
    <<EndPoint(dep, "DEP")>>
    \o (IF waypoints # <<>>
        THEN SampledWaypoints(waypoints, 0, Max({1, Len(waypoints) \div 3}))
        ELSE <<MidPoint(dep, arr)>>)
    \o <<EndPoint(arr, "ARR")>>

(* {**pt, "wind": w} *)
WithWind(pt, w) == [ident |-> pt.ident, lat |-> pt.lat, lon |-> pt.lon, wind |-> w]

(* results.append(entry) in place of the indexed store: the entry takes    *)
(* the first free place, whatever its point                                *)
AppendItem(rs, i, entry) ==
    IF \E j \in DOMAIN rs : rs[j] = None
    THEN [rs EXCEPT ![Min({j \in DOMAIN rs : rs[j] = None})] = entry]
    ELSE rs

(* results[i] = entry, i counted from 1 *)
SetItem(rs, i, entry) == [rs EXCEPT ![i] = entry]

(* [r for r in results if r is not None] *)
Collected(rs) == SelectSeq(rs, LAMBDA r : r # None)

(* t.join(timeout=15) returns when the thread has finished or the timeout  *)
(* has expired                                                             *)
join_without_timeout(finished, expired) == finished

join(finished, expired) == finished \/ expired

(***************************************************************************)
(* src/winds_aloft.py: wind_summary_line.  The line is built as the source *)
(* builds it, without its leading symbol and with "deg" for the degree     *)
(* sign.                                                                   *)
(***************************************************************************)
IndexError == Raise("IndexError")

(* the entry picked without the "elif route_winds" test: route_winds[-1]   *)
(* of an empty list                                                        *)
MidEntryUnguarded(route_winds) ==
    IF Len(route_winds) >= 3 THEN route_winds[(Len(route_winds) \div 2) + 1]
    ELSE IF route_winds = <<>> THEN IndexError
    ELSE route_winds[Len(route_winds)]

(* mid: route_winds[len // 2] of three or more entries, else the last one, *)
(* else None                                                               *)
MidEntry(route_winds) ==
    IF Len(route_winds) >= 3 THEN route_winds[(Len(route_winds) \div 2) + 1]
    ELSE IF route_winds # <<>> THEN route_winds[Len(route_winds)]
    ELSE None

(* f"{n:03d}" *)
Format03d(n) ==
    IF n < 0 THEN "-" \o (IF -n < 10 THEN "0" ELSE "") \o ToString(-n)
    ELSE (IF n < 10 THEN "00" ELSE IF n < 100 THEN "0" ELSE "") \o ToString(n)

(* f"{n:+d}" *)
FormatPlusD(n) == IF n >= 0 THEN "+" \o ToString(n) ELSE ToString(n)

(* f"{abs(hw):.0f}" of a headwind in tenths: the nearest integer, a half    *)
(* to the even one                                                         *)
FormatAbs0f(tenths) == ToString(RoundHalfEven(Rat(Abs(tenths), 10)))

(* hw_str of a wind that is not variable *)
HwStr(tenths) ==
    "  " \o (IF tenths >= 0 THEN "HW" ELSE "TW") \o " " \o FormatAbs0f(tenths) \o "kt"

WindStr(w, course) ==
    IF Get(w, "variable", FALSE) THEN "VRB/LT"
    ELSE Format03d(w.dir) \o "deg/" \o ToString(w.speed_kt) \o "kt"
         \o HwStr(HeadwindTenths(w.dir, w.speed_kt, course))

NoWindData == Text(<<"Winds aloft: no data for this route">>)

SummaryOfWind(w, course) ==
    IF Falsy(w) THEN NoWindData
    ELSE Text(<<WindStr(w, course) \o "  " \o FormatPlusD(Get(w, "temp_c", 0))
                \o "degC  (stn: " \o Get(w, "station", "?") \o ")">>)

SummaryOfMid(mid, course) ==
    IF mid = IndexError THEN mid
    ELSE SummaryOfWind(IF mid = None THEN None ELSE Get(mid, "wind", None), course)

wind_summary_line(route_winds, course) == SummaryOfMid(MidEntry(route_winds), course)

(***************************************************************************)
(* Bounds on the inputs                                                    *)
(***************************************************************************)
MaxLookupFl == 470

NumAircraft == 5

NumElev == 3

NumDist == 3

NumFl == 4

Prefix(seq, k) == {seq[i] : i \in 1..(IF k < Len(seq) THEN k ELSE Len(seq))}

(* aircraft profiles (src/aircraft.py rows reduced to the keys read here),  *)
(* one with a code outside the registry, one that names the profile without *)
(* cruise rows, one dict without simbrief_code                              *)
AircraftChoices ==
    << [simbrief_code |-> "C182", cruise_kts |-> 130],
       [simbrief_code |-> "ZZZZ", cruise_kts |-> 120],
       [simbrief_code |-> NoCruiseCode],
       [simbrief_code |-> "TBM9", cruise_kts |-> 330],
       [simbrief_code |-> "B736", cruise_kts |-> 450],
       [cruise_kts |-> 100],
       [simbrief_code |-> NoCruiseCode, cruise_kts |-> 0] >>

ElevChoices == <<0, 5000, -500, 12000, 1000>>

DistChoices == <<300, 0, 40, 1000, 25>>

FlChoices == <<95, 85, 20, 420, 400, 310>>

Aircraft == Prefix(AircraftChoices, NumAircraft)

Airports ==
    {[elevation_ft |-> e] : e \in Prefix(ElevChoices, NumElev)}
        \cup {[elev_ft |-> 1000], [elevation_ft |-> 0, elev_ft |-> 2000]}

Distances == Prefix(DistChoices, NumDist)

FlightLevels == Prefix(FlChoices, NumFl)

(* wind samples as get_winds_at_point returns them, and the absent wind *)
WindChoices ==
    << [dir |-> 270, speed_kt |-> 20, temp_c |-> -5, variable |-> FALSE, station |-> "DFW"],
       None,
       [dir |-> 0, speed_kt |-> 0, temp_c |-> -9, variable |-> TRUE, station |-> "ABI"],
       [dir |-> 240, speed_kt |-> 103, temp_c |-> -21, variable |-> FALSE, station |-> "DEN"],
       [dir |-> 270, speed_kt |-> 160, temp_c |-> -40, variable |-> FALSE],
       [dir |-> 90, speed_kt |-> 35, temp_c |-> 4, variable |-> TRUE, station |-> "OKC"] >>

CourseChoices == <<270, 90, 0, 210>>

NumWind == 5

NumCourse == 3

Winds == Prefix(WindChoices, NumWind)

(* wind directions in tens of degrees and wind speeds for the component     *)
(* functions called on their own                                            *)
MaxDirTens == 36

SpeedChoices == <<20, 0, 103, 199, 1, 57>>

NumSpeed == 4

(* FD tokens: every two-digit DD, some two-digit SS, and some suffixes;     *)
(* then tokens outside the grammar                                         *)
TwoDigits(n) == Ch(Digits, (n \div 10) + 1) \o Ch(Digits, (n % 10) + 1)

SsChoices == <<11, 0, 99, 5, 60>>

NumSs == 3

SuffixChoices == <<"", "+00", "-01", "41", "+5", "-", "-25", "x1">>

NumSuffix == 6

OtherTokens == {"", "////", " 0311+00 ", "99", "03 1", "ABCD"}

Tokens ==
    {TwoDigits(dd) \o TwoDigits(ss) \o sfx :
        dd \in 0..99, ss \in Prefix(SsChoices, NumSs), sfx \in Prefix(SuffixChoices, NumSuffix)}
    \cup OtherTokens

(* _LOW_LEVELS and _HIGH_LEVELS: the column altitudes of the two tables *)
_LOW_LEVELS == <<3000, 6000, 9000, 12000, 18000, 24000, 30000, 34000, 39000>>

_HIGH_LEVELS == <<24000, 30000, 34000, 39000, 45000, 53000>>

ColumnAltitudes == {3000, 18000, 24000, 39000}

(* FD bulletins: a low-level table as the service sends it (the ABI row   *)
(* has a blank 3000 ft cell), a table that starts with its header line,   *)
(* a text without header, the empty text, and a high-level table          *)
TextChoices ==
    << << "(Extracted from FBUS31 KWNO 031359)",
          "FD1US1",
          "DATA BASED ON 031200Z",
          "VALID 031800Z   FOR USE 1400-2100Z. TEMPS NEG ABV 24000",
          "",
          "FT  3000    6000    9000   12000   18000   24000  30000  34000  39000",
          "ABI      0311+00 3210-01 3218-04 3041-13 2950-25 296041 296351 297760",
          "DFW 9900 0311+05 3210-01 //// 3041-13 2950-25 296041 790351 297760",
          "   ",
          "DEN //// XXXX 12 ////",
          "OKC 3611 9900+12 2725+03",
          "DFW 1111 1111+11 1111+11" >>,
       << "FT  3000    6000    9000",
          "DFW 0311+00 3210-01 3218-04" >>,
       << "DATA BASED ON 031200Z",
          "DFW 0311+00 3210-01 3218-04" >>,
       <<>>,
       << "VALID 031800Z   FOR USE 1400-2100Z. TEMPS NEG ABV 24000",
          "FT  45000  53000",
          "DFW 781560 9900",
          "abi 276058 286960" >>,
       << "",
          "FT 6000 9000 6000",
          "DFW 0910+10 2710+02 1812-04" >> >>

NumText == 5

StationChoices == <<"DFW", "KABI", "den", "OKC", "XYZ", "kdfw">>

NumStation == 5

AltChoices == <<7500, 3000, 9000, 45000, 4000, 20000, 8000, 35000>>

NumAlt == 6

(* a route as gui._fetch_winds_worker passes it: departure and arrival     *)
(* dicts (KDFW, KDEN), the waypoint lists, the cruise flight levels        *)
RouteDep == [ident |-> "KDFW", latitude_deg |-> 13160, longitude_deg |-> -38816]

RouteArr == [icao_code |-> "KDEN", lat |-> 15944, lon |-> -41868]

WaypointChoices ==
    << <<>>,
       << [ident |-> "IRW", lat |-> 14156, lon |-> -39040] >>,
       << [lat |-> 0, lon |-> -39040],
          [ident |-> "ABI", lat |-> 12964, lon |-> -39872],
          [latitude_deg |-> 14156, longitude_deg |-> -39040],
          [ident |-> "AMA", lat |-> 14088, lon |-> -40684],
          [ident |-> "ZERO", lat |-> 0, lon |-> 0],
          [ident |-> "PUB", lat |-> 15316, lon |-> -41800],
          [ident |-> "NOLON", lat |-> 15316] >>,
       << [ident |-> "NOLAT", lon |-> -39040] >> >>

NumWaypoints == 3

FetchFlChoices == <<95, 310, 240>>

NumFetchFl == 2

MaxCalls == 1

Waypoints == Prefix(WaypointChoices, NumWaypoints)

FetchFls == Prefix(FetchFlChoices, NumFetchFl)

(* what the service sends for a level: the low-level table above, and a    *)
(* high-level table                                                        *)
HighBulletin ==
    << "(Extracted from FBUS31 KWNO 031359)",
       "FD3US3",
       "DATA BASED ON 031200Z",
       "VALID 031800Z   FOR USE 1400-2100Z. TEMPS NEG ABV 24000",
       "",
       "FT  45000  53000",
       "DFW 781560 9900",
       "ABI 276058 286960",
       "DEN 256830 257240",
       "OKC 266460 761262",
       "AMA 990060 256561" >>

Bulletin(level) == IF level = "low" THEN TextChoices[1] ELSE HighBulletin

(* the outcomes of requests.get(url, timeout=12): the table, a short body, *)
(* an error status, an exception                                           *)
Responses(level) ==
    {[tag |-> "response", status_code |-> 200, text |-> Bulletin(level)],
     [tag |-> "response", status_code |-> 200, text |-> TextChoices[2]],
     [tag |-> "response", status_code |-> 503, text |-> Bulletin(level)],
     Raise("ConnectionError")}

FetchedTexts == {None} \cup {Str(Bulletin(level)) : level \in {"low", "high"}}

AllRoutePoints ==
    UNION {{RoutePoints(RouteDep, RouteArr, w)[i] : i \in DOMAIN RoutePoints(RouteDep, RouteArr, w)} :
              w \in Waypoints}

(* get_winds_at_point tabulated over the texts, points and levels of the   *)
(* route                                                                   *)
WindsAtPoint ==
    [text \in FetchedTexts, pt \in AllRoutePoints, fl \in FetchFls |->
        get_winds_at_point(text, pt.lat, pt.lon, fl)]

WindDirs == {10 * k : k \in 0..MaxDirTens}

WindSpeeds == Prefix(SpeedChoices, NumSpeed)

Courses == Prefix(CourseChoices, NumCourse)

(* course_deg(self.dep, self.arr) is a float of the route; the summary is  *)
(* taken on a westbound and on an eastbound course                         *)
RouteCourses == {CourseChoices[1], CourseChoices[2]}

(***************************************************************************)
(* State: the registry the process has loaded, the operation last called,  *)
(* its arguments and its result.                                           *)
(***************************************************************************)
(* no call of fetch_route_winds yet, and a cold cache *)
NoFetch ==
    /\ cache = <<>>
    /\ fetched = [level \in {"low", "high"} |-> 0]
    /\ threads = <<>>
    /\ results = <<>>
    /\ main = [pc |-> "idle", i |-> 0, calls |-> 0, cruise_fl |-> 0, points |-> <<>>,
               timed_out |-> {}, unfinished |-> {}, overtaken |-> FALSE, ret |-> <<>>]

Init ==
    /\ registry \in {"shipped", "no_cruise_rows"}
    /\ op = "start"
    /\ inp = None
    /\ out = None
    /\ NoFetch

(* get_cruise_row(poh, target_fl) on a profile of the registry *)
LookupCruiseRow ==
    /\ op = "start"
    /\ \E code \in DOMAIN Registry(registry), fl \in 0..MaxLookupFl, tieUp \in BOOLEAN :
           /\ op' = "get_cruise_row"
           /\ inp' = [code |-> code, target_fl |-> fl]
           /\ out' = get_cruise_row(get_poh(registry, code), fl, tieUp)
           /\ UNCHANGED <<registry, fetchVars>>

(* gui._show_fuel_detail: fp = compute_fuel_plan(dep, arr, ac, dist, fl) *)
ComputeFuelPlan ==
    /\ op = "start"
    /\ \E ac \in Aircraft, dep \in Airports, arr \in Airports,
          dist \in Distances, fl \in FlightLevels, tieUp \in BOOLEAN :
           /\ op' = "compute_fuel_plan"
           /\ inp' = [dep |-> dep, arr |-> arr, aircraft |-> ac,
                      dist_nm |-> dist, cruise_fl |-> fl]
           /\ out' = compute_fuel_plan(registry, dep, arr, ac, dist, fl, tieUp)
           /\ UNCHANGED <<registry, fetchVars>>

(* format_fuel_plan(fp) on the plan just computed *)
FormatFuelPlan ==
    /\ op = "compute_fuel_plan"
    /\ op' = "format_fuel_plan"
    /\ inp' = [fp |-> out]
    /\ out' = format_fuel_plan(out)
    /\ UNCHANGED <<registry, fetchVars>>

(* summary_line(fp) on the plan just computed *)
SummaryLine ==
    /\ op = "compute_fuel_plan"
    /\ op' = "summary_line"
    /\ inp' = [fp |-> out]
    /\ out' = summary_line(out)
    /\ UNCHANGED <<registry, fetchVars>>

(* gui._fetch_winds_worker: adjust_fuel_plan_for_wind(self.fuel_plan, wind, *)
(* course), called only when a plan has been computed                       *)
AdjustFuelPlanForWind ==
    /\ op = "compute_fuel_plan"
    /\ ~Falsy(out)
    /\ \E wind \in Winds, course \in Courses :
           /\ op' = "adjust_fuel_plan_for_wind"
           /\ inp' = [fp |-> out, wind |-> wind, course_deg |-> course]
           /\ out' = adjust_fuel_plan_for_wind(out, wind, course)
           /\ UNCHANGED <<registry, fetchVars>>

(* headwind_component(wind_dir, wind_speed, course_deg) *)
HeadwindComponent ==
    /\ op = "start"
    /\ \E wind_dir \in WindDirs, wind_speed \in WindSpeeds, course \in 0..359 :
           /\ op' = "headwind_component"
           /\ inp' = [wind_dir |-> wind_dir, wind_speed |-> wind_speed,
                      course_deg |-> course]
           /\ out' = headwind_component(wind_dir, wind_speed, course)
           /\ UNCHANGED <<registry, fetchVars>>

(* _decode_fd(code, alt_ft) *)
DecodeFd ==
    /\ op = "start"
    /\ \E code \in Tokens, alt_ft \in ColumnAltitudes :
           /\ op' = "_decode_fd"
           /\ inp' = [code |-> code, alt_ft |-> alt_ft]
           /\ out' = _decode_fd(code, alt_ft)
           /\ UNCHANGED <<registry, fetchVars>>

(* _parse_fd_table(text, station_id, alt_ft) *)
ParseFdTable ==
    /\ op = "start"
    /\ \E text \in Prefix(TextChoices, NumText), station_id \in Prefix(StationChoices, NumStation),
          alt_ft \in Prefix(AltChoices, NumAlt) :
           \E result \in _parse_fd_table(text, station_id, alt_ft) :
               /\ op' = "_parse_fd_table"
               /\ inp' = [text |-> text, station_id |-> station_id, alt_ft |-> alt_ft]
               /\ out' = result
               /\ UNCHANGED <<registry, fetchVars>>

(***************************************************************************)
(* fetch_route_winds: the calling thread (main) and the threads it starts. *)
(* A thread is [call, slot, pc, text, pt, cruise_fl]: the call that made   *)
(* it, its index in results, its position in _fetch, the text it got.      *)
(***************************************************************************)
ThreadOf(call, slot) == CHOOSE k \in DOMAIN threads : threads[k].call = call /\ threads[k].slot = slot

Finished(slot) == threads[ThreadOf(main.calls, slot)].pc = "done"

NewThread(call, slot, pt, cruise_fl) ==
    [call |-> call, slot |-> slot, pc |-> "new", text |-> None, pt |-> pt, cruise_fl |-> cruise_fl]

(* gui._fetch_winds_worker: fetch_route_winds(self.dep, self.arr, wps, fl) *)
(* up to the list of threads.  A later call is taken once the threads of   *)
(* the earlier one have finished.                                          *)
CallFetchRouteWinds ==
    /\ main.pc = "idle"
    /\ main.calls < MaxCalls
    /\ \A k \in DOMAIN threads : threads[k].pc = "done"
    /\ \E waypoints \in Waypoints, cruise_fl \in FetchFls :
           /\ main' = [pc |-> "start", i |-> 1, calls |-> main.calls + 1, cruise_fl |-> cruise_fl,
                       points |-> RoutePoints(RouteDep, RouteArr, waypoints),
                       timed_out |-> {}, unfinished |-> {}, overtaken |-> FALSE, ret |-> <<>>]
           /\ results' = [i \in DOMAIN RoutePoints(RouteDep, RouteArr, waypoints) |-> None]
           /\ threads' = SelectSeq(threads, LAMBDA t : t.pc # "done")
                            \o [i \in DOMAIN RoutePoints(RouteDep, RouteArr, waypoints) |->
                                   NewThread(main.calls + 1, i,
                                             RoutePoints(RouteDep, RouteArr, waypoints)[i], cruise_fl)]
    /\ op' = "start"
    /\ inp' = None
    /\ out' = None
    /\ UNCHANGED <<registry, cache, fetched>>

(* for t in threads: t.start() *)
StartThread ==
    /\ main.pc = "start"
    /\ threads' = [threads EXCEPT ![ThreadOf(main.calls, main.i)].pc = "lookup"]
    /\ main' = IF main.i < Len(main.points)
               THEN [main EXCEPT !.i = main.i + 1]
               ELSE [main EXCEPT !.pc = "join", !.i = 1]
    /\ UNCHANGED <<registry, op, inp, out, cache, fetched, results>>

(* for t in threads: t.join(timeout=15) *)
JoinThread ==
    /\ main.pc = "join"
    /\ \E expired \in BOOLEAN :
           /\ join(Finished(main.i), expired)
           /\ main' = [main EXCEPT
                          !.pc = IF main.i < Len(main.points) THEN "join" ELSE "collect",
                          !.i = IF main.i < Len(main.points) THEN main.i + 1 ELSE 1,
                          !.timed_out = IF Finished(main.i) THEN @ ELSE @ \cup {main.i}]
    /\ UNCHANGED <<registry, op, inp, out, cache, fetched, threads, results>>

(* return [r for r in results if r is not None] *)
ReturnResults ==
    /\ main.pc = "collect"
    /\ main' = [main EXCEPT !.pc = "idle", !.ret = Collected(results),
                            !.unfinished = {s \in DOMAIN results : ~Finished(s)}]
    /\ UNCHANGED <<registry, op, inp, out, cache, fetched, threads, results>>

(* _fetch_windtemp_text(level) through the lru_cache wrapper: a hit returns *)
(* the cached value, a miss goes on to call the function                   *)
CacheLookup(k) ==
    /\ threads[k].pc = "lookup"
    /\ IF _pick_level(threads[k].cruise_fl) \in CachedKeys(cache)
       THEN /\ threads' = [threads EXCEPT
                              ![k].pc = "parse",
                              ![k].text = CacheValue(cache, _pick_level(threads[k].cruise_fl))]
            /\ cache' = CacheHit(cache, _pick_level(threads[k].cruise_fl))
       ELSE /\ threads' = [threads EXCEPT ![k].pc = "request"]
            /\ cache' = cache
    /\ UNCHANGED <<registry, op, inp, out, fetched, results, main>>

(* the function body after a miss: requests.get, and the wrapper storing   *)
(* what the body returned                                                  *)
Request(k) ==
    /\ threads[k].pc = "request"
    /\ \E response \in Responses(_pick_level(threads[k].cruise_fl)) :
           /\ threads' = [threads EXCEPT ![k].pc = "parse",
                                         ![k].text = _fetch_windtemp_text(response)]
           /\ cache' = CacheStore(cache, _pick_level(threads[k].cruise_fl),
                                  _fetch_windtemp_text(response))
    /\ fetched' = [fetched EXCEPT ![_pick_level(threads[k].cruise_fl)] = @ + 1]
    /\ UNCHANGED <<registry, op, inp, out, results, main>>

(* a thread of the running call finishes while one started before it has   *)
(* not                                                                     *)
Overtakes(k) ==
    /\ threads[k].call = main.calls
    /\ \E j \in DOMAIN threads :
           /\ threads[j].call = main.calls
           /\ threads[j].slot < threads[k].slot
           /\ threads[j].pc # "done"

(* the rest of get_winds_at_point, then results[i] = {**pt, "wind": w} in  *)
(* the list of the call that made the thread; main.overtaken records that  *)
(* the threads of the call did not finish in route order                   *)
StoreResult(k) ==
    /\ threads[k].pc = "parse"
    /\ \E w \in WindsAtPoint[threads[k].text, threads[k].pt, threads[k].cruise_fl] :
           results' = IF threads[k].call = main.calls
                      THEN SetItem(results, threads[k].slot, WithWind(threads[k].pt, w))
                      ELSE results
    /\ threads' = [threads EXCEPT ![k].pc = "done"]
    /\ main' = [main EXCEPT !.overtaken = @ \/ Overtakes(k)]
    /\ UNCHANGED <<registry, op, inp, out, cache, fetched>>

(* gui._fetch_winds_worker: summary = wind_summary_line(self.route_winds,  *)
(* course) on the list fetch_route_winds returned                          *)
WindSummaryLine ==
    /\ main.pc = "idle"
    /\ main.calls > 0
    /\ op = "start"
    /\ \E course \in RouteCourses :
           /\ op' = "wind_summary_line"
           /\ inp' = [route_winds |-> main.ret, course |-> course]
           /\ out' = wind_summary_line(main.ret, course)
    /\ UNCHANGED <<registry, fetchVars>>

MainStep == StartThread \/ JoinThread \/ ReturnResults

NextWinds ==
    \/ CallFetchRouteWinds
    \/ StartThread
    \/ JoinThread
    \/ ReturnResults
    \/ \E k \in DOMAIN threads : CacheLookup(k)
    \/ \E k \in DOMAIN threads : Request(k)
    \/ \E k \in DOMAIN threads : StoreResult(k)

InitWinds ==
    /\ registry = "shipped"
    /\ op = "start"
    /\ inp = None
    /\ out = None
    /\ NoFetch

(* the calling thread keeps running, and a join with a timeout returns;    *)
(* nothing is assumed of the threads, whose requests may never come back   *)
SpecWinds == InitWinds /\ [][NextWinds]_vars /\ WF_vars(MainStep)

(* the worker of the gui: fetch_route_winds, then wind_summary_line on the *)
(* list it returned                                                        *)
NextSummary == NextWinds \/ WindSummaryLine

SpecSummary == InitWinds /\ [][NextSummary]_vars /\ WF_vars(MainStep)

Next ==
    \/ LookupCruiseRow
    \/ ComputeFuelPlan
    \/ FormatFuelPlan
    \/ SummaryLine
    \/ AdjustFuelPlanForWind
    \/ HeadwindComponent
    \/ DecodeFd
    \/ ParseFdTable

Spec == Init /\ [][Next]_vars

(***************************************************************************)
(* Properties                                                              *)
(***************************************************************************)
RSum3(a, b, c) == RAdd(a, RAdd(b, c))

RSum4(a, b, c, d) == RAdd(RAdd(a, b), RAdd(c, d))

IsPlan(x) == "block_fuel" \in DOMAIN x

(* the totals of a plan agree with its own phase fields *)
TotalsConsistent(p) ==
    /\ p.trip_fuel = RSum3(p.climb_fuel, p.cruise_fuel, p.descent_fuel)
    /\ RMul(p.contingency, RInt(100)) = RMul(p.trip_fuel, RInt(p.poh.contingency_pct))
    /\ p.block_fuel = RSum4(p.taxi_fuel, p.trip_fuel, p.contingency, p.reserve)
    /\ p.total_time_hr = RSum3(p.climb_time_hr, p.cruise_time_hr, p.descent_time_hr)
    /\ (p.fuel_ok <=> RLe(p.block_fuel, p.usable_capacity))

(* C1: in every plan compute_fuel_plan returns, block fuel is taxi + trip  *)
(* + contingency + reserve and trip fuel is the sum of the climb, cruise   *)
(* and descent fuel.                                                       *)
C1_FuelIdentity ==
    (op = "compute_fuel_plan" /\ IsPlan(out)) =>
        /\ out.block_fuel = RSum4(out.taxi_fuel, out.trip_fuel, out.contingency, out.reserve)
        /\ out.trip_fuel = RSum3(out.climb_fuel, out.cruise_fuel, out.descent_fuel)

C1_Witness ==
    /\ op = "compute_fuel_plan"
    /\ IsPlan(out)
    /\ out.cruise_fuel.n > 0
    /\ out.climb_fuel.n > 0
    /\ out.contingency.n > 0

(* C2: every plan adjust_fuel_plan_for_wind returns, adjusted or not, has  *)
(* trip fuel, contingency, block fuel, total time and fuel_ok consistent   *)
(* with its own phase fields, as compute_fuel_plan computes them.          *)
C2_AdjustedTotalsConsistent ==
    op = "adjust_fuel_plan_for_wind" => TotalsConsistent(out.ret)

C2_Witness ==
    /\ op = "adjust_fuel_plan_for_wind"
    /\ out.ret.wind_adjusted
    /\ out.ret.cruise_fuel # inp.fp.cruise_fuel
    /\ out.ret.contingency # inp.fp.contingency

(* C3: the cruise distance of a computed plan is max(0, route distance -   *)
(* climb distance - descent distance), so it is never negative, and every  *)
(* phase distance and time is non-negative.                                *)
C3_CruiseDistanceClamped ==
    (op = "compute_fuel_plan" /\ IsPlan(out)) =>
        LET rest == RSub(RInt(inp.dist_nm), RAdd(out.climb_dist_nm, out.descent_dist_nm))
        IN  /\ out.cruise_dist_nm = (IF rest.n > 0 THEN rest ELSE RZero)
            /\ out.cruise_dist_nm.n >= 0
            /\ out.climb_dist_nm.n >= 0
            /\ out.descent_dist_nm.n >= 0
            /\ out.climb_time_hr.n >= 0
            /\ out.cruise_time_hr.n >= 0
            /\ out.descent_time_hr.n >= 0
            /\ out.total_time_hr.n >= 0

C3_Witness ==
    /\ op = "compute_fuel_plan"
    /\ IsPlan(out)
    /\ RLt(RInt(inp.dist_nm), RAdd(out.climb_dist_nm, out.descent_dist_nm))
    /\ out.cruise_dist_nm = RZero

(* C4: for an aircraft whose code is not in the registry compute_fuel_plan *)
(* returns None, and format_fuel_plan and summary_line of that None return *)
(* their no-data line; nothing is raised.                                  *)
C4_NoPohData ==
    /\ (op = "compute_fuel_plan"
          /\ Get(inp.aircraft, "simbrief_code", "") \notin DOMAIN Registry(registry))
           => out = None
    /\ (op = "format_fuel_plan" /\ inp.fp = None)
           => out = Text(<<"No POH data available for this aircraft.">>)
    /\ (op = "summary_line" /\ inp.fp = None)
           => out = Text(<<"Fuel: No POH data">>)

C4_Witness ==
    /\ op = "format_fuel_plan"
    /\ inp.fp = None
    /\ out.tag = "text"

(* C5: when the profile exists but has no cruise rows, get_cruise_row      *)
(* returns the empty row and compute_fuel_plan returns the absent result   *)
(* instead of a computed plan.                                             *)
C5_NoCruiseRowsAbsent ==
    (/\ op = "compute_fuel_plan"
     /\ Get(inp.aircraft, "simbrief_code", "") \in DOMAIN Registry(registry)
     /\ Registry(registry)[Get(inp.aircraft, "simbrief_code", "")].cruise_table = <<>>)
        => /\ get_cruise_row(Registry(registry)[inp.aircraft.simbrief_code],
                             inp.cruise_fl, TRUE) = EmptyDict
           /\ out = None

(* C6: a lookup at a flight level that is the key of a table row returns a *)
(* row of the table with that key, every field as in the table.            *)
C6_ExactAtTablePoints ==
    op = "get_cruise_row" =>
        LET table == Registry(registry)[inp.code].cruise_table
        IN  (\E i \in DOMAIN table : table[i].fl = inp.target_fl)
                => \E i \in DOMAIN table : table[i].fl = inp.target_fl /\ out = table[i]

C6_Witness ==
    /\ op = "get_cruise_row"
    /\ inp.code = "C25C"
    /\ inp.target_fl = 400
    /\ out.ktas = 440

(* the value v is x1 + (num/den)*(x2 - x1) rounded to the nearest unit *)
NearestToLerp(v, x1, x2, num, den) ==
    2 * Abs(v * den - (x1 * den + num * (x2 - x1))) <= den

Between(v, x1, x2) ==
    /\ (IF x1 <= x2 THEN x1 ELSE x2) <= v
    /\ v <= (IF x1 <= x2 THEN x2 ELSE x1)

(* C7: for a target strictly between two adjacent table altitudes the row  *)
(* returned has airspeed, burn rate and power equal to lower + ratio *     *)
(* (upper - lower), ratio = (target - lower.fl)/(upper.fl - lower.fl),     *)
(* rounded to a whole unit (burn rate to one decimal), each between the    *)
(* bracketing rows' values; C182 at FL095 gives 143 kt and 12.0.           *)
C7_InterpolationBounded ==
    op = "get_cruise_row" =>
        LET table == Registry(registry)[inp.code].cruise_table
            t     == inp.target_fl
            lows  == {i \in DOMAIN table : table[i].fl < t}
            highs == {i \in DOMAIN table : table[i].fl > t}
        IN  /\ (lows # {} /\ highs # {} /\ \A i \in DOMAIN table : table[i].fl # t)
                => \E i \in lows, j \in highs :
                       LET lo == table[i]
                           hi == table[j]
                           num == t - lo.fl
                           den == hi.fl - lo.fl
                       IN  /\ \A k \in lows : table[k].fl <= lo.fl
                           /\ \A k \in highs : table[k].fl >= hi.fl
                           /\ NearestToLerp(out.ktas, lo.ktas, hi.ktas, num, den)
                           /\ NearestToLerp(out.fuel, lo.fuel, hi.fuel, num, den)
                           /\ NearestToLerp(out.power_pct, lo.power_pct, hi.power_pct, num, den)
                           /\ Between(out.ktas, lo.ktas, hi.ktas)
                           /\ Between(out.fuel, lo.fuel, hi.fuel)
                           /\ Between(out.power_pct, lo.power_pct, hi.power_pct)
            /\ (inp.code = "C182" /\ t = 95) => (out.ktas = 143 /\ out.fuel = 120)

C7_Witness ==
    /\ op = "get_cruise_row"
    /\ inp.code = "C182"
    /\ inp.target_fl = 95
    /\ out.ktas = 143
    /\ out.fuel = 120

(* C8: every aircraft entry of the POH registry, as the process has it     *)
(* loaded, has a cruise table with strictly increasing altitude keys and   *)
(* positive burn rates.                                                    *)
C8_CruiseTablesStrictlyIncreasing ==
    \A code \in POHCodes :
        LET table == Registry(registry)[code].cruise_table
        IN  /\ \A i \in DOMAIN table : table[i].fuel > 0
            /\ \A i \in DOMAIN table : i > 1 => table[i - 1].fl < table[i].fl

(* C9: with an absent or variable wind the returned plan is not adjusted:  *)
(* wind direction, speed and headwind are 0, the groundspeed is the cruise *)
(* airspeed, and the cruise and total figures are the base plan's.         *)
C9_NoWindUnadjusted ==
    (op = "adjust_fuel_plan_for_wind"
       /\ (inp.wind = None \/ Get(inp.wind, "variable", FALSE))) =>
        /\ out.ret.wind_adjusted = FALSE
        /\ out.ret.wind_dir = 0
        /\ out.ret.wind_speed = 0
        /\ out.ret.wind_hw = RZero
        /\ out.ret.wind_gs = inp.fp.cruise_ktas
        /\ \A f \in {"cruise_time_hr", "cruise_fuel", "trip_fuel", "contingency",
                     "block_fuel", "total_time_hr", "fuel_ok"} :
               out.ret[f] = inp.fp[f]

C9_Witness ==
    /\ op = "adjust_fuel_plan_for_wind"
    /\ inp.wind # None
    /\ inp.wind.variable
    /\ ~out.ret.wind_adjusted
    /\ inp.fp.cruise_fuel.n > 0

FrameFields ==
    {"poh", "fuel_key", "unit", "unit_hr", "cruise_fl", "cruise_ktas", "cruise_notes",
     "power_pct", "taxi_fuel", "climb_fuel", "climb_time_hr", "climb_dist_nm",
     "climb_burn_rate", "cruise_dist_nm", "cruise_burn_rate", "descent_fuel",
     "descent_time_hr", "descent_dist_nm", "descent_burn_rate", "reserve",
     "usable_capacity", "max_range_nm", "endurance_hr"}

(* C10: adjust_fuel_plan_for_wind leaves the plan passed to it as it was   *)
(* and returns a plan whose taxi, climb and descent fields, cruise         *)
(* distance, airspeed and burn rate, reserve, capacity, endurance and      *)
(* range are the base plan's.                                              *)
C10_BasePlanUntouched ==
    op = "adjust_fuel_plan_for_wind" =>
        /\ out.base = inp.fp
        /\ \A f \in FrameFields : out.ret[f] = inp.fp[f]

C10_Witness ==
    /\ op = "adjust_fuel_plan_for_wind"
    /\ out.ret.wind_adjusted
    /\ out.ret.block_fuel # inp.fp.block_fuel
    /\ out.ret.fuel_ok # inp.fp.fuel_ok

(* C11: headwind_component gives +speed when the wind blows from the      *)
(* course heading and -speed when it blows from the reciprocal heading;    *)
(* a wind from the forward half-plane is never negative (headwind) and a   *)
(* wind from the rear half-plane never positive (tailwind).                *)
C11_HeadwindSign ==
    op = "headwind_component" =>
        LET a == (inp.wind_dir - inp.course_deg) % 360
        IN  /\ a = 0 => out = RInt(inp.wind_speed)
            /\ a = 180 => out = RInt(-inp.wind_speed)
            /\ (a < 90 \/ a > 270) => RLe(RZero, out)
            /\ (90 < a /\ a < 270) => RLe(out, RZero)

C11_Witness ==
    /\ op = "headwind_component"
    /\ inp.wind_speed = 20
    /\ inp.wind_dir = 90
    /\ inp.course_deg = 270
    /\ out = RInt(-20)

(* C12: for a present, non-variable wind the adjusted plan uses            *)
(* groundspeed max(1, cruise_ktas - headwind), never below 1 kt, cruise    *)
(* time = cruise_dist_nm / groundspeed and cruise fuel = burn rate * time; *)
(* TAS 143 with a 20 kt direct headwind gives groundspeed 123 and a cruise *)
(* time not shorter than the baseline.                                     *)
C12_GroundspeedFloor ==
    (op = "adjust_fuel_plan_for_wind" /\ ~Falsy(inp.wind) /\ ~Get(inp.wind, "variable", FALSE)) =>
        LET gs == RMax(RInt(1), RSub(RInt(inp.fp.cruise_ktas), out.ret.wind_hw))
        IN  /\ out.ret.wind_gs = RoundHalfEven(gs)
            /\ out.ret.wind_gs >= 1
            /\ out.ret.cruise_time_hr = RDiv(inp.fp.cruise_dist_nm, gs)
            /\ out.ret.cruise_fuel = RMul(inp.fp.cruise_burn_rate, out.ret.cruise_time_hr)
            /\ (inp.fp.cruise_ktas = 143 /\ inp.wind.speed_kt = 20
                    /\ inp.wind.dir = inp.course_deg)
                 => /\ out.ret.wind_gs = 123
                    /\ RLe(inp.fp.cruise_time_hr, out.ret.cruise_time_hr)

C12_Witness ==
    /\ op = "adjust_fuel_plan_for_wind"
    /\ inp.fp.cruise_ktas = 143
    /\ inp.wind = WindChoices[1]
    /\ inp.course_deg = 270
    /\ out.ret.wind_gs = 123
    /\ RLt(inp.fp.cruise_time_hr, out.ret.cruise_time_hr)

(* The token grammar as the format description gives it: DDSS, then an    *)
(* optional temperature suffix with or without a sign.                     *)
TokenDD(code) == 10 * DigitVal(Ch(code, 1)) + DigitVal(Ch(code, 2))

TokenSS(code) == 10 * DigitVal(Ch(code, 3)) + DigitVal(Ch(code, 4))

TokenSuffix(code) == SubSeq(code, 5, Len(code))

SignedSuffix(t) == Len(t) >= 2 /\ Ch(t, 1) \in {"+", "-"} /\ AllDigits(Tail(t))

UnsignedSuffix(t) == t # "" /\ AllDigits(t)

SuffixMagnitude(t) == DecimalValue(IF Ch(t, 1) \in {"+", "-"} THEN Tail(t) ELSE t)

FourDigitHead(code) == Len(code) >= 4 /\ AllDigits(SubSeq(code, 1, 4))

LightToken(code) == Len(code) >= 4 /\ SubSeq(code, 1, 4) = "9900"

StandardToken(code) ==
    /\ FourDigitHead(code)
    /\ ~LightToken(code)
    /\ (TokenSuffix(code) = "" \/ SignedSuffix(TokenSuffix(code))
            \/ UnsignedSuffix(TokenSuffix(code)))

C14_LightAndVariable ==
    (op = "_decode_fd" /\ LightToken(strip(inp.code))) =>
        LET sfx == TokenSuffix(strip(inp.code))
        IN  /\ out # None
            /\ out.dir = 0
            /\ out.speed_kt = 0
            /\ out.variable = TRUE
            /\ sfx = "" => out.temp_c = 0
            /\ (SignedSuffix(sfx) \/ UnsignedSuffix(sfx)) =>
                   Abs(out.temp_c) = SuffixMagnitude(sfx)

C14_Witness ==
    /\ op = "_decode_fd"
    /\ inp.code = "9900-01"
    /\ out # None
    /\ out.variable
    /\ out.temp_c = -1

(* C15: at a column altitude of 24,000 ft or more every decoded            *)
(* temperature is <= 0 with the printed magnitude, whether the suffix is   *)
(* unsigned, '+' signed or '-' signed, in a standard or a 9900 token.      *)
C15_NegativeAloft ==
    (op = "_decode_fd" /\ inp.alt_ft >= 24000 /\ FourDigitHead(strip(inp.code))
        /\ (SignedSuffix(TokenSuffix(strip(inp.code)))
               \/ UnsignedSuffix(TokenSuffix(strip(inp.code))))) =>
        /\ out # None
        /\ out.temp_c <= 0
        /\ -out.temp_c = SuffixMagnitude(TokenSuffix(strip(inp.code)))

C15_Witness ==
    /\ op = "_decode_fd"
    /\ inp.alt_ft = 24000
    /\ inp.code = "0311+5"
    /\ out # None
    /\ out.temp_c = -5

(* C16: below 24,000 ft a '+TT' suffix decodes to +TT and a '-TT' suffix   *)
(* to -TT, and a suffix without a sign is not taken as a temperature: the  *)
(* token is rejected or its temperature stays at the default 0.            *)
C16_ExplicitSignRequired ==
    (op = "_decode_fd" /\ inp.alt_ft < 24000 /\ FourDigitHead(strip(inp.code))) =>
        LET sfx == TokenSuffix(strip(inp.code))
        IN  /\ (SignedSuffix(sfx) /\ Ch(sfx, 1) = "+") =>
                   out # None /\ out.temp_c = SuffixMagnitude(sfx)
            /\ (SignedSuffix(sfx) /\ Ch(sfx, 1) = "-") =>
                   out # None /\ out.temp_c = -SuffixMagnitude(sfx)
            /\ UnsignedSuffix(sfx) => (out = None \/ out.temp_c = 0)

(* C17: every wind sample returned by the decoder has its direction in     *)
(* [0, 360) degrees and a speed >= 0.                                      *)
C17_SampleInRange ==
    (op \in {"_decode_fd", "_parse_fd_table"} /\ out # None) =>
        /\ 0 <= out.dir /\ out.dir < 360
        /\ out.speed_kt >= 0

(* The lines of a bulletin as its format describes them (numbered from 1, *)
(* 0 for none): the header line, and the station's row below it.           *)
FirstHeader(text) ==
    IF \E i \in 1..Len(text) : HeaderMatches(text[i])
    THEN Min({i \in 1..Len(text) : HeaderMatches(text[i])})
    ELSE 0

IsStationLine(line, station_id) ==
    /\ split(line) # <<>>
    /\ upper(split(line)[1]) \in {upper(station_id), Sid3(upper(station_id))}

FirstStationLine(text, h, station_id) ==
    IF h > 0 /\ \E i \in (h + 1)..Len(text) : IsStationLine(text[i], station_id)
    THEN Min({i \in (h + 1)..Len(text) : IsStationLine(text[i], station_id)})
    ELSE 0

Range(seq) == {seq[i] : i \in 1..Len(seq)}

NoCellDecodes(parts, alts) ==
    \A j \in 2..Len(parts), alt \in Range(alts) : _decode_fd(parts[j], alt) = None

(* the cell of column c decodes, and c is the only column of its altitude *)
CellDecodes(parts, alts, c) ==
    /\ c + 1 <= Len(parts)
    /\ \A c2 \in 1..Len(alts) : alts[c2] = alts[c] => c2 = c
    /\ _decode_fd(parts[c + 1], alts[c]) # None

RowKeepsDecodedCells(parts, alts, alt_ft, result) ==
    \A c \in 1..Len(alts) :
        (alts[c] = alt_ft /\ CellDecodes(parts, alts, c)) =>
            result = _decode_fd(parts[c + 1], alts[c])

ParsedAsDescribed(text, h, r, alt_ft, result) ==
    /\ h = 0 => result = None
    /\ (h > 0 /\ r = 0) => result = None
    /\ (r > 0 /\ NoCellDecodes(split(text[r]), FindAltitudes(text[h], 1))) => result = None
    /\ (h > 1 /\ r > 0) =>
           RowKeepsDecodedCells(split(text[r]), FindAltitudes(text[h], 1), alt_ft, result)

(* C18: _parse_fd_table never raises; it returns absent when the text has *)
(* no header line, no row for the station, or no decodable cell in that    *)
(* row; a placeholder or unparseable cell is skipped on its own, and the   *)
(* sample of a decodable cell is returned for its column's altitude        *)
(* whatever the other cells of the row hold.                               *)
C18_ParseNeverRaises ==
    op = "_parse_fd_table" =>
        /\ out \notin {Raise(e) : e \in {"IndexError", "ValueError", "KeyError"}}
        /\ ParsedAsDescribed(inp.text, FirstHeader(inp.text),
                             FirstStationLine(inp.text, FirstHeader(inp.text), inp.station_id),
                             inp.alt_ft, out)

C18_Witness ==
    /\ op = "_parse_fd_table"
    /\ inp.text = TextChoices[1]
    /\ inp.station_id = "DFW"
    /\ inp.alt_ft = 9000
    /\ out = [dir |-> 320, speed_kt |-> 10, temp_c |-> -1, variable |-> FALSE]

(* fetch_route_winds has returned to its caller *)
Returned == main.pc = "idle" /\ main.calls > 0

SamePoint(r, pt) == r.ident = pt.ident /\ r.lat = pt.lat /\ r.lon = pt.lon

InReturnedList(slot) == \E k \in DOMAIN main.ret : SamePoint(main.ret[k], main.points[slot])

(* the slots whose thread had finished when the list was collected, and    *)
(* the place of such a slot among them                                     *)
FinishedSlots == DOMAIN main.points \ main.unfinished

Rank(slot) == Cardinality({s \in FinishedSlots : s <= slot})

PossibleWinds(pt) == UNION {WindsAtPoint[text, pt, main.cruise_fl] : text \in FetchedTexts}

(* C19 as stated: once fetch_route_winds has returned, a point whose       *)
(* lookup had not finished when its join timed out is not in the returned  *)
(* list, and a point whose lookup finished in time is in it.               *)
C19_TimedOutPointOmitted ==
    Returned =>
        \A slot \in DOMAIN main.points :
            IF slot \in main.timed_out THEN ~InReturnedList(slot) ELSE InReturnedList(slot)

ReturnedListAsCollected ==
    /\ Len(main.ret) = Cardinality(FinishedSlots)
    /\ \A slot \in main.unfinished : ~InReturnedList(slot)
    /\ \A slot \in FinishedSlots :
           /\ SamePoint(main.ret[Rank(slot)], main.points[slot])
           /\ main.ret[Rank(slot)].wind \in PossibleWinds(main.points[slot])
    /\ \A slot \in DOMAIN main.points \ main.timed_out : slot \in FinishedSlots

(* C19: fetch_route_winds always returns to its caller, whether or not the *)
(* lookups of its points ever complete.  The returned list holds, in route *)
(* order and with its wind or absent wind, every point whose lookup had    *)
(* finished when the list was collected after the last join, which         *)
(* includes every point that finished before its own join ended; a point   *)
(* whose lookup was still unfinished then is omitted.                      *)
C19_AlwaysReturns ==
    /\ [](Returned => ReturnedListAsCollected)
    /\ (main.pc # "idle") ~> (main.pc = "idle")

C19_Witness ==
    /\ Returned
    /\ \E slot \in main.unfinished : slot \in main.timed_out /\ ~InReturnedList(slot)
    /\ \E slot \in FinishedSlots : InReturnedList(slot) /\ main.ret[Rank(slot)].wind # None

(* C20 as stated: whatever the interleaving of the lookups, the text of a  *)
(* level is requested from the service at most once, and a level that has  *)
(* been requested stays in the cache.                                      *)
C20_FetchedOncePerBand ==
    \A level \in {"low", "high"} :
        /\ fetched[level] <= 1
        /\ fetched[level] > 0 => level \in CachedKeys(cache)

(* the entry wind_summary_line is described to pick: the middle one of     *)
(* three or more, else the last                                            *)
Representative(route_winds) ==
    IF Len(route_winds) >= 3 THEN (Len(route_winds) \div 2) + 1 ELSE Len(route_winds)

(* C21: wind_summary_line never raises on a list fetch_route_winds can     *)
(* return, whatever its length; for the empty list, and when the entry it  *)
(* picks has no wind, it returns the "no data for this route" line.        *)
C21_SummaryNeverRaises ==
    op = "wind_summary_line" =>
        /\ out.tag = "text"
        /\ (inp.route_winds = <<>>
              \/ inp.route_winds[Representative(inp.route_winds)].wind = None)
               => out = NoWindData

C21_Witness ==
    /\ op = "wind_summary_line"
    /\ inp.route_winds = <<>>
    /\ out = NoWindData

TableOf(code) == Registry(registry)[code].cruise_table

LowestFl(table) == Min({table[i].fl : i \in DOMAIN table})

HighestFl(table) == Max({table[i].fl : i \in DOMAIN table})

(* C22: for a target below every cruise-table altitude get_cruise_row       *)
(* returns a row of the table, unchanged, whose altitude is the lowest of  *)
(* the table, and for a target above every table altitude one whose        *)
(* altitude is the highest; nothing is extrapolated.                       *)
C22_ClampedToTable ==
    (op = "get_cruise_row" /\ TableOf(inp.code) # <<>>) =>
        /\ inp.target_fl < LowestFl(TableOf(inp.code)) =>
               \E i \in DOMAIN TableOf(inp.code) :
                   out = TableOf(inp.code)[i] /\ out.fl = LowestFl(TableOf(inp.code))
        /\ inp.target_fl > HighestFl(TableOf(inp.code)) =>
               \E i \in DOMAIN TableOf(inp.code) :
                   out = TableOf(inp.code)[i] /\ out.fl = HighestFl(TableOf(inp.code))

C22_Witness ==
    /\ op = "get_cruise_row"
    /\ inp.code = "C182"
    /\ inp.target_fl < LowestFl(TableOf("C182"))
    /\ out = TableOf("C182")[1]

(* the row an exact lookup at the highest table altitude returns *)
TopRow(code) == get_cruise_row(Registry(registry)[code], HighestFl(TableOf(code)), FALSE)

(* the target lies between the highest table altitude and the one below it *)
JustBelowTop(table, target_fl) ==
    /\ target_fl < HighestFl(table)
    /\ \E i \in DOMAIN table : table[i].fl < target_fl
    /\ \A i \in DOMAIN table : table[i].fl < target_fl \/ table[i].fl = HighestFl(table)

(* C29 as stated: in a table whose rows share an altitude, the row         *)
(* returned above every table altitude is the row an exact lookup at the   *)
(* highest altitude returns, and the upper row of an interpolation just    *)
(* below that altitude is that row too.                                    *)
C29_TopAltitudeConsistent ==
    (op = "get_cruise_row" /\ TableOf(inp.code) # <<>>) =>
        /\ inp.target_fl > HighestFl(TableOf(inp.code)) => out = TopRow(inp.code)
        /\ JustBelowTop(TableOf(inp.code), inp.target_fl) =>
               \E i \in {j \in DOMAIN TableOf(inp.code) : TableOf(inp.code)[j].fl < inp.target_fl},
                  tieUp \in BOOLEAN :
                   out = InterpolateRow(TableOf(inp.code)[i], TopRow(inp.code),
                                        inp.target_fl, tieUp)

(* the cell in position c of the split row decodes for the altitude of     *)
(* header column c                                                         *)
SomeCellDecodes(parts, alts) ==
    \E c \in 1..Len(alts) : c + 1 <= Len(parts) /\ _decode_fd(parts[c + 1], alts[c]) # None

(* C23 as stated: _parse_fd_table returns a sample whenever the text has a *)
(* header line, on whichever line it is (the first included), followed by  *)
(* a row for the station with at least one decodable cell.                 *)
C23_HeaderOnAnyLine ==
    (op = "_parse_fd_table"
        /\ FirstHeader(inp.text) > 0
        /\ FirstStationLine(inp.text, FirstHeader(inp.text), inp.station_id) > 0
        /\ SomeCellDecodes(split(inp.text[FirstStationLine(inp.text, FirstHeader(inp.text),
                                                           inp.station_id)]),
                           FindAltitudes(inp.text[FirstHeader(inp.text)], 1)))
        => out # None

(* the positions at which the altitudes of a header line end, in order *)
RECURSIVE AltitudeEnds(_, _)
AltitudeEnds(line, i) ==
    IF i > Len(line) THEN <<>>
    ELSE IF DigitRun(line, i, 5) >= 4
         THEN <<i + DigitRun(line, i, 5) - 1>> \o AltitudeEnds(line, i + DigitRun(line, i, 5))
         ELSE AltitudeEnds(line, i + 1)

(* the positions at which the tokens of a line end *)
TokenEnds(line) ==
    {e \in 1..Len(line) : Ch(line, e) # " " /\ (e = Len(line) \/ Ch(line, e + 1) = " ")}

(* where the token that ends at position e starts *)
TokenStart(line, e) == Min({s \in 1..e : \A k \in s..e : Ch(line, k) # " "})

(* a station row laid out under its header: after the station, every token *)
(* ends where an altitude of the header ends                               *)
LaidOutUnder(row, header) ==
    \A e \in TokenEnds(row) : TokenStart(row, e) = 1 \/ e \in Range(AltitudeEnds(header, 1))

(* what the parser is described to return for a target that is the         *)
(* altitude of header column c: the sample of the token under that column, *)
(* and under a blank lowest column the sample of the next column           *)
ColumnResult(row, header, alts, ends, c, result) ==
    /\ (ends[c] \in TokenEnds(row)
          /\ _decode_fd(SubSeq(row, TokenStart(row, ends[c]), ends[c]), alts[c]) # None)
           => result = _decode_fd(SubSeq(row, TokenStart(row, ends[c]), ends[c]), alts[c])
    /\ (c = 1 /\ Len(alts) > 1 /\ ends[1] \notin TokenEnds(row) /\ ends[2] \in TokenEnds(row)
          /\ _decode_fd(SubSeq(row, TokenStart(row, ends[2]), ends[2]), alts[2]) # None)
           => result = _decode_fd(SubSeq(row, TokenStart(row, ends[2]), ends[2]), alts[2])

TokensKeepTheirColumn(row, header, alt_ft, result) ==
    LaidOutUnder(row, header) =>
        \A c \in 1..Len(FindAltitudes(header, 1)) :
            FindAltitudes(header, 1)[c] = alt_ft =>
                ColumnResult(row, header, FindAltitudes(header, 1), AltitudeEnds(header, 1), c, result)

(* C24 as stated: each token of a station row is decoded against the       *)
(* altitude of the header column it stands under; a blank cell yields no   *)
(* sample for its column and leaves the other tokens with their columns.   *)
C24_TokensKeepTheirColumn ==
    (op = "_parse_fd_table"
        /\ FirstHeader(inp.text) > 1
        /\ FirstStationLine(inp.text, FirstHeader(inp.text), inp.station_id) > 0)
        => TokensKeepTheirColumn(
               inp.text[FirstStationLine(inp.text, FirstHeader(inp.text), inp.station_id)],
               inp.text[FirstHeader(inp.text)], inp.alt_ft, out)

(* the samples decoded from the station's row, by column altitude *)
DecodedSamples(text, station_id) ==
    StationData(split(text[FirstStationLine(text, FirstHeader(text), station_id)]),
                FindAltitudes(text[FirstHeader(text)], 1)).data

ResolvedAsDescribed(samples, alt_ft, result) ==
    /\ alt_ft <= Min(DOMAIN samples) => result = samples[Min(DOMAIN samples)]
    /\ alt_ft >= Max(DOMAIN samples) => result = samples[Max(DOMAIN samples)]
    /\ alt_ft \in DOMAIN samples => result = samples[alt_ft]
    /\ \A lo \in DOMAIN samples, hi \in DOMAIN samples :
           (lo < alt_ft /\ alt_ft < hi /\ \A a \in DOMAIN samples : a <= lo \/ a >= hi) =>
               /\ NearestToLerp(result.temp_c, samples[lo].temp_c, samples[hi].temp_c,
                                alt_ft - lo, hi - lo)
               /\ Between(result.temp_c, samples[lo].temp_c, samples[hi].temp_c)

(* C25: a sample returned by _parse_fd_table is, for a target at or below  *)
(* the lowest decoded altitude, the lowest sample unchanged; at or above   *)
(* the highest, the highest sample unchanged; at a decoded altitude, that  *)
(* column's sample unchanged; strictly between two decoded altitudes its   *)
(* temperature is the linear interpolation of the bracketing temperatures, *)
(* rounded to a whole degree.                                              *)
C25_ResolvedWithoutExtrapolation ==
    (op = "_parse_fd_table" /\ out # None) =>
        ResolvedAsDescribed(DecodedSamples(inp.text, inp.station_id), inp.alt_ft, out)

C25_Witness ==
    /\ op = "_parse_fd_table"
    /\ inp.text = TextChoices[1]
    /\ inp.station_id = "DFW"
    /\ inp.alt_ft = 7500
    /\ out.temp_c = 2

(* the entry in slot s is the point of slot s with a wind resolved for     *)
(* that point from the text its own thread got                             *)
OwnEntry(s) ==
    /\ SamePoint(results[s], main.points[s])
    /\ Finished(s)
    /\ results[s].wind \in WindsAtPoint[threads[ThreadOf(main.calls, s)].text, main.points[s],
                                        main.cruise_fl]

(* the slot of the point of a returned entry *)
SlotOf(r) == CHOOSE s \in DOMAIN main.points : SamePoint(r, main.points[s])

(* C26: whatever the order in which the lookups complete, a slot of        *)
(* results holds nothing or the entry of its own point with the wind       *)
(* resolved for that point, and the returned list holds its entries in     *)
(* route order.                                                            *)
C26_CompletionOrderIrrelevant ==
    /\ \A s \in DOMAIN results : results[s] # None => OwnEntry(s)
    /\ Returned =>
           /\ \A k \in DOMAIN main.ret : \E s \in DOMAIN main.points : SamePoint(main.ret[k], main.points[s])
           /\ \A k \in DOMAIN main.ret, l \in DOMAIN main.ret :
                  k < l => SlotOf(main.ret[k]) < SlotOf(main.ret[l])
           /\ \A k \in DOMAIN main.ret : main.ret[k].wind \in PossibleWinds(main.points[SlotOf(main.ret[k])])

C26_Witness ==
    /\ Returned
    /\ main.overtaken
    /\ Len(main.ret) = 3
    /\ main.ret[1].ident = "KDFW"
    /\ main.ret[1].wind # None
    /\ main.ret[3].ident = "KDEN"

(* C27 as stated: a sample returned by _parse_fd_table with the variable   *)
(* flag set has speed 0 and direction 0, interpolated samples included,    *)
(* and a returned sample with a speed other than 0 is not flagged.         *)
C27_VariableMeansCalm ==
    (op = "_parse_fd_table" /\ out # None) =>
        /\ out.variable => (out.speed_kt = 0 /\ out.dir = 0)
        /\ out.speed_kt # 0 => ~out.variable

(* the cache holds an absent text for the level *)
FailureCached(level) == level \in CachedKeys(cache) /\ CacheValue(cache, level) = None

LevelOf(k) == _pick_level(threads[k].cruise_fl)

(* the first request of the level comes back failed *)
FirstFetchFails(k) ==
    /\ threads[k].pc = "request"
    /\ fetched[LevelOf(k)] = 0
    /\ threads'[k].pc = "parse"
    /\ threads'[k].text = None

(* C28: the absent result of a failed first fetch of a level is cached and *)
(* stays cached; every call of get_winds_at_point for the level that       *)
(* reaches the cache from then on takes the absent text from it without a  *)
(* request, and returns an absent wind.                                    *)
C28_FailedFetchCached ==
    [][main'.calls = main.calls =>
          \A k \in DOMAIN threads :
              /\ FirstFetchFails(k) => FailureCached(LevelOf(k))'
              /\ FailureCached(LevelOf(k)) => FailureCached(LevelOf(k))'
              /\ (FailureCached(LevelOf(k)) /\ threads[k].pc = "lookup" /\ threads'[k].pc # "lookup") =>
                     /\ threads'[k].pc = "parse"
                     /\ threads'[k].text = None
                     /\ fetched' = fetched
              /\ (threads[k].pc = "parse" /\ threads[k].text = None /\ threads'[k].pc = "done"
                    /\ threads[k].call = main.calls) =>
                     results'[threads[k].slot].wind = None]_vars

(* the one request of the level failed, and two lookups have returned an   *)
(* absent wind, so one of them took the absent text from the cache         *)
C28_Witness ==
    /\ \E level \in {"low", "high"} : fetched[level] = 1 /\ FailureCached(level)
    /\ fetched["low"] + fetched["high"] = 1
    /\ \E j \in DOMAIN threads, k \in DOMAIN threads :
           /\ j # k
           /\ threads[j].pc = "done" /\ threads[j].text = None
           /\ threads[k].pc = "done" /\ threads[k].text = None
           /\ results[threads[j].slot].wind = None
           /\ results[threads[k].slot].wind = None

(* the durations format_fuel_plan prints through _t *)
PrintedTimes(report) ==
    {report.times.climb, report.times.cruise, report.times.descent,
     report.times.total, report.times.endurance}

(* C30 as stated: every duration format_fuel_plan prints as H:MM has a     *)
(* minutes field from 00 to 59.                                            *)
C30_MinutesBelowSixty ==
    (op = "format_fuel_plan" /\ ~Falsy(inp.fp)) =>
        \A t \in PrintedTimes(out) : t[2] >= 0 /\ t[2] <= 59

====
